---- MODULE Spec2Model ----
(***************************************************************************)
(* A model of gonum/lapack's call-contract layer:                          *)
(*   - package cgo (src/cgo/lapack.go): the argument validation, the       *)
(*     workspace-size query and the dispatch to the lapacke backend of the *)
(*     routines that take an lwork argument;                               *)
(*   - package fortran (src/internal/fortran/fortran.go): the row-major /  *)
(*     column-major conversions and the strided copies.                    *)
(*                                                                         *)
(* Slices whose contents the wrappers never look at are modelled by their  *)
(* length; work is a sequence, because the wrappers write work[0].  A Go   *)
(* index i is the TLA+ index i+1.  A panic is an outcome that carries the  *)
(* panic message; a run-time index error carries indexOutOfRange.          *)
(***************************************************************************)
EXTENDS Integers, Sequences, FiniteSets, TLC

VARIABLES phase, call, first, orig, cur, hops, last, lapack64, selected

vars == <<phase, call, first, orig, cur, hops, last, lapack64, selected>>

\* ------------------------------------------------------------------ bounds
\* Largest matrix dimension (m, n, k, nrhs) passed to a cgo routine.
MaxN == 2
\* Largest lwork passed on a first call (a second call passes the queried size).
MaxLwork == 3

\* --------------------------------------------------- src/cgo/lapack.go:14-56
badD            == "lapack: d has insufficient length"
badDecompUpdate == "lapack: bad decomp update"
badDims         == "lapack: bad input dimensions"
badE            == "lapack: e has insufficient length"
badEVComp       == "lapack: bad EVComp"
badEVJob        == "lapack: bad EVJob"
badIlo          == "lapack: ilo out of range"
badIhi          == "lapack: ihi out of range"
badIpiv         == "lapack: insufficient permutation length"
badS            == "lapack: s has insufficient length"
badSide         == "lapack: bad side"
badTau          == "lapack: tau has insufficient length"
badTauQ         == "lapack: tauQ has insufficient length"
badTauP         == "lapack: tauP has insufficient length"
badTrans        == "lapack: bad trans"
badWork         == "lapack: insufficient working memory"
kGTM            == "lapack: k > m"
kGTN            == "lapack: k > n"
kLT0            == "lapack: k < 0"
mLTN            == "lapack: m < n"
negDimension    == "lapack: negative matrix dimension"
nLT0            == "lapack: n < 0"
nLTM            == "lapack: n < m"
shortWork       == "lapack: working array shorter than declared"
noSVDO          == "dgesvd: not coded for overwrite"

\* The messages of checkMatrix (src/cgo/lapack.go:74-87).
negRows     == "lapack: has negative number of rows"
negCols     == "lapack: has negative number of columns"
badStride   == "lapack: stride less than number of columns"
shortMatrix == "lapack: insufficient matrix slice length"

\* The Go run time's panics.
indexOutOfRange == "runtime error: index out of range"
makesliceLen    == "runtime error: makeslice: len out of range"

min(m, n) == IF m < n THEN m ELSE n

max(m, n) == IF m < n THEN n ELSE m

\* checkMatrix, on the length of a: the panic message, or "" when it returns.
\* A variant that leaves the last row out of the length it asks for.
checkMatrix_lastRowLeftOut(m, n, a, lda) ==
  IF m < 0 THEN negRows
  ELSE IF n < 0 THEN negCols
  ELSE IF lda < n THEN badStride
  ELSE IF a < (m - 1) * lda THEN shortMatrix
  ELSE ""

checkMatrix(m, n, a, lda) ==
  IF m < 0 THEN negRows
  ELSE IF n < 0 THEN negCols
  ELSE IF lda < n THEN badStride
  ELSE IF a < (m - 1) * lda + n THEN shortMatrix
  ELSE ""

\* ------------------------------------------------------- outcomes of a call
\* panic: the message, "" when the call did not panic; backend: whether the
\* lapacke routine was invoked, and blwork the lwork it was handed; work: the
\* caller's work slice when the wrapper is done with it; wrote: the slices the
\* wrapper itself assigned to; ret: the boolean result, "none" without one,
\* "backend" when it is the backend's; args: the arguments handed to the
\* backend that a routine records; res: the other results of the routine.
Panics(msg, work) ==
  [panic |-> msg, backend |-> FALSE, blwork |-> 0, work |-> work,
   wrote |-> {}, ret |-> "none", args |-> <<>>, res |-> <<>>]

Returns(ret, work, wrote) ==
  [panic |-> "", backend |-> FALSE, blwork |-> 0, work |-> work,
   wrote |-> wrote, ret |-> ret, args |-> <<>>, res |-> <<>>]

Forwards(lwork, work) ==
  [panic |-> "", backend |-> TRUE, blwork |-> lwork, work |-> work,
   wrote |-> {}, ret |-> "backend", args |-> <<>>, res |-> <<>>]

\* work[0] = float64(v); return ret
\* A variant that fills the whole work slice with the size.
QueryReturn_fillsWork(work, v, ret) ==
  IF Len(work) = 0 THEN Panics(indexOutOfRange, work)
  ELSE Returns(ret, [k \in 1 .. Len(work) |-> v], {"work"})

QueryReturn(work, v, ret) ==
  IF Len(work) = 0 THEN Panics(indexOutOfRange, work)
  ELSE Returns(ret, [work EXCEPT ![1] = v], {"work"})

\* The first check that fails decides: checks is a sequence of <<failed, msg>>.
RECURSIVE FirstPanic(_)
FirstPanic(checks) ==
  IF checks = <<>> THEN ""
  ELSE IF Head(checks)[1] THEN Head(checks)[2]
  ELSE FirstPanic(Tail(checks))

\* ------------------------------------------------------------ the routines
Dgebrd(m, n, a, lda, d, e, tauQ, tauP, work, lwork) ==
  LET minmn == min(m, n)
      ws == max(m, n)
      bad == FirstPanic(<<
        <<checkMatrix(m, n, a, lda) # "", checkMatrix(m, n, a, lda)>>,
        <<d < minmn, badD>>,
        <<e < minmn - 1, badE>>,
        <<tauQ < minmn, badTauQ>>,
        <<tauP < minmn, badTauP>> >>)
  IN IF bad # "" THEN Panics(bad, work)
     ELSE IF lwork = -1 THEN QueryReturn(work, ws, "none")
     ELSE IF lwork < ws THEN Panics(badWork, work)
     ELSE IF Len(work) < lwork THEN Panics(badWork, work)
     ELSE Forwards(lwork, work)

\* A variant that checks the matrix before it answers the size query.
Dgelqf_checksFirst(m, n, a, lda, tau, work, lwork) ==
  IF checkMatrix(m, n, a, lda) # "" THEN Panics(checkMatrix(m, n, a, lda), work)
  ELSE IF lwork = -1 THEN QueryReturn(work, m, "none")
  ELSE LET bad == FirstPanic(<<
             <<Len(work) < lwork, shortWork>>,
             <<lwork < m, badWork>>,
             <<tau < min(m, n), badTau>> >>)
       IN IF bad # "" THEN Panics(bad, work) ELSE Forwards(lwork, work)

Dgelqf(m, n, a, lda, tau, work, lwork) ==
  IF lwork = -1 THEN QueryReturn(work, m, "none")
  ELSE LET bad == FirstPanic(<<
             <<checkMatrix(m, n, a, lda) # "", checkMatrix(m, n, a, lda)>>,
             <<Len(work) < lwork, shortWork>>,
             <<lwork < m, badWork>>,
             <<tau < min(m, n), badTau>> >>)
       IN IF bad # "" THEN Panics(bad, work) ELSE Forwards(lwork, work)

Dgeqrf(m, n, a, lda, tau, work, lwork) ==
  IF lwork = -1 THEN QueryReturn(work, n, "none")
  ELSE LET k == min(m, n)
           bad == FirstPanic(<<
             <<checkMatrix(m, n, a, lda) # "", checkMatrix(m, n, a, lda)>>,
             <<Len(work) < lwork, shortWork>>,
             <<lwork < n, badWork>>,
             <<tau < k, badTau>> >>)
       IN IF bad # "" THEN Panics(bad, work) ELSE Forwards(lwork, work)

Dgehrd(n, ilo, ihi, a, lda, tau, work, lwork) ==
  LET bad == FirstPanic(<<
        <<ilo < 0 \/ max(0, n - 1) < ilo, badIlo>>,
        <<ihi < min(ilo, n - 1) \/ n <= ihi, badIhi>>,
        <<lwork < max(1, n) /\ lwork # -1, badWork>>,
        <<Len(work) < lwork, shortWork>>,
        <<lwork # -1 /\ checkMatrix(n, n, a, lda) # "", checkMatrix(n, n, a, lda)>>,
        <<lwork # -1 /\ tau # n - 1 /\ n > 0, badTau>> >>)
  IN IF bad # "" THEN Panics(bad, work)
     ELSE [Forwards(lwork, work) EXCEPT !.args = <<ilo + 1, ihi + 1>>]

Dgels(trans, m, n, nrhs, a, lda, b, ldb, work, lwork) ==
  LET mn == min(m, n)
  IN IF lwork = -1 THEN QueryReturn(work, mn + max(mn, nrhs), "true")
     ELSE LET bad == FirstPanic(<<
                <<checkMatrix(m, n, a, lda) # "", checkMatrix(m, n, a, lda)>>,
                <<checkMatrix(max(m, n), nrhs, b, ldb) # "",
                  checkMatrix(max(m, n), nrhs, b, ldb)>>,
                <<Len(work) < lwork, shortWork>>,
                <<lwork < mn + max(mn, nrhs), badWork>> >>)
          IN IF bad # "" THEN Panics(bad, work) ELSE Forwards(lwork, work)

Dgesvd(jobU, jobVT, m, n, a, lda, s, u, ldu, vt, ldvt, work, lwork) ==
  LET chkU == IF jobU = "SVDAll" THEN checkMatrix(m, m, u, ldu)
              ELSE IF jobU = "SVDInPlace" THEN checkMatrix(m, min(m, n), u, ldu)
              ELSE ""
      chkVT == IF jobVT = "SVDAll" THEN checkMatrix(n, n, vt, ldvt)
               ELSE IF jobVT = "SVDInPlace" THEN checkMatrix(min(m, n), n, vt, ldvt)
               ELSE ""
      minWork == max(5 * min(m, n), 3 * min(m, n) + max(m, n))
      bad == FirstPanic(<<
        <<checkMatrix(m, n, a, lda) # "", checkMatrix(m, n, a, lda)>>,
        <<chkU # "", chkU>>,
        <<chkVT # "", chkVT>>,
        <<jobU = "SVDOverwrite" /\ jobVT = "SVDOverwrite", noSVDO>>,
        <<s < min(m, n), badS>>,
        <<jobU = "SVDOverwrite" \/ jobVT = "SVDOverwrite",
          "lapack: SVD not coded to overwrite original matrix">>,
        <<lwork # -1 /\ Len(work) < lwork, badWork>>,
        <<lwork # -1 /\ lwork < minWork, badWork>> >>)
  IN IF bad # "" THEN Panics(bad, work)
     ELSE IF lwork = -1 THEN QueryReturn(work, minWork, "true")
     ELSE Forwards(lwork, work)

\* ipiv32[i] = int32(v) + 1; the conversion to int32 keeps every index of the
\* magnitudes enumerated here.
OneIndexed(ipiv) == [i \in 1 .. Len(ipiv) |-> ipiv[i] + 1]

Dgetri(n, a, lda, ipiv, work, lwork) ==
  LET bad == FirstPanic(<<
        <<checkMatrix(n, n, a, lda) # "", checkMatrix(n, n, a, lda)>>,
        <<Len(ipiv) < n, badIpiv>> >>)
  IN IF bad # "" THEN Panics(bad, work)
     ELSE IF lwork = -1 THEN QueryReturn(work, n, "true")
     ELSE IF lwork < n THEN Panics(badWork, work)
     ELSE IF Len(work) < lwork THEN Panics(badWork, work)
     ELSE [Forwards(lwork, work) EXCEPT !.args = OneIndexed(ipiv)]

Dorgbr(vect, m, n, k, a, lda, tau, work, lwork) ==
  LET mn == min(m, n)
      wantq == vect = "ApplyQ"
      chkA == IF wantq THEN checkMatrix(m, k, a, lda) ELSE checkMatrix(k, n, a, lda)
      bad == FirstPanic(<<
        <<wantq /\ (m < n \/ n < min(m, k) \/ m < min(m, k)), badDims>>,
        <<~wantq /\ (n < m \/ m < min(n, k) \/ n < min(n, k)), badDims>>,
        <<chkA # "", chkA>> >>)
  IN IF bad # "" THEN Panics(bad, work)
     ELSE IF lwork = -1 THEN QueryReturn(work, mn, "none")
     ELSE IF Len(work) < lwork THEN Panics(badWork, work)
     ELSE IF lwork < mn THEN Panics(badWork, work)
     ELSE Forwards(lwork, work)

Dorghr(n, ilo, ihi, a, lda, tau, work, lwork) ==
  LET nh == ihi - ilo
      bad == FirstPanic(<<
        <<checkMatrix(n, n, a, lda) # "", checkMatrix(n, n, a, lda)>>,
        <<ilo < 0 \/ max(1, n) <= ilo, badIlo>>,
        <<ihi < min(ilo, n - 1) \/ n <= ihi, badIhi>>,
        <<lwork < max(1, nh) /\ lwork # -1, badWork>>,
        <<Len(work) < max(1, lwork), shortWork>> >>)
  IN IF bad # "" THEN Panics(bad, work)
     ELSE [Forwards(lwork, work) EXCEPT !.args = <<ilo + 1, ihi + 1>>]

Dorglq(m, n, k, a, lda, tau, work, lwork) ==
  IF lwork = -1 THEN QueryReturn(work, m, "none")
  ELSE LET bad == FirstPanic(<<
             <<checkMatrix(m, n, a, lda) # "", checkMatrix(m, n, a, lda)>>,
             <<k < 0, kLT0>>,
             <<k > m, kGTM>>,
             <<m > n, nLTM>>,
             <<tau < k, badTau>>,
             <<Len(work) < lwork, shortWork>>,
             <<lwork < m, badWork>> >>)
       IN IF bad # "" THEN Panics(bad, work) ELSE Forwards(lwork, work)

Dorgqr(m, n, k, a, lda, tau, work, lwork) ==
  IF lwork = -1 THEN QueryReturn(work, n, "none")
  ELSE LET bad == FirstPanic(<<
             <<checkMatrix(m, n, a, lda) # "", checkMatrix(m, n, a, lda)>>,
             <<k < 0, kLT0>>,
             <<k > n, kGTN>>,
             <<n > m, mLTN>>,
             <<tau < k, badTau>>,
             <<Len(work) < lwork, shortWork>>,
             <<lwork < n, badWork>> >>)
       IN IF bad # "" THEN Panics(bad, work) ELSE Forwards(lwork, work)

Dormbr(vect, side, trans, m, n, k, a, lda, tau, c, ldc, work, lwork) ==
  LET nq == IF side = "Left" THEN m ELSE n
      chkA == IF vect = "ApplyQ" THEN checkMatrix(nq, min(nq, k), a, lda)
              ELSE checkMatrix(min(nq, k), nq, a, lda)
      bad == FirstPanic(<<
        <<side # "Left" /\ side # "Right", badSide>>,
        <<trans # "NoTrans" /\ trans # "Trans", badTrans>>,
        <<vect # "ApplyP" /\ vect # "ApplyQ", badDecompUpdate>>,
        <<chkA # "", chkA>> >>)
  IN IF bad # "" THEN Panics(bad, work) ELSE Forwards(lwork, work)

\* A variant that holds ilo and ihi against n whatever the side.
Dormhr_boundsOfN(side, trans, m, n, ilo, ihi, a, lda, tau, c, ldc, work, lwork) ==
  LET nq == IF side = "Left" THEN m ELSE n
      nw == IF side = "Left" THEN n ELSE m
      bad == FirstPanic(<<
        <<side # "Left" /\ side # "Right", badSide>>,
        <<trans # "NoTrans" /\ trans # "Trans", badTrans>>,
        <<ilo < 0 \/ max(1, n) <= ilo, badIlo>>,
        <<ihi < min(ilo, n - 1) \/ n <= ihi, badIhi>>,
        <<lwork < max(1, nw) /\ lwork # -1, badWork>>,
        <<Len(work) < max(1, lwork), shortWork>>,
        <<lwork # -1 /\ checkMatrix(m, n, c, ldc) # "", checkMatrix(m, n, c, ldc)>>,
        <<lwork # -1 /\ checkMatrix(nq, nq, a, lda) # "", checkMatrix(nq, nq, a, lda)>>,
        <<lwork # -1 /\ tau # nq - 1 /\ nq > 0, badTau>> >>)
  IN IF bad # "" THEN Panics(bad, work)
     ELSE [Forwards(lwork, work) EXCEPT !.args = <<ilo + 1, ihi + 1>>]

Dormhr(side, trans, m, n, ilo, ihi, a, lda, tau, c, ldc, work, lwork) ==
  LET nq == IF side = "Left" THEN m ELSE n
      nw == IF side = "Left" THEN n ELSE m
      bad == FirstPanic(<<
        <<side # "Left" /\ side # "Right", badSide>>,
        <<trans # "NoTrans" /\ trans # "Trans", badTrans>>,
        <<ilo < 0 \/ max(1, nq) <= ilo, badIlo>>,
        <<ihi < min(ilo, nq - 1) \/ nq <= ihi, badIhi>>,
        <<lwork < max(1, nw) /\ lwork # -1, badWork>>,
        <<Len(work) < max(1, lwork), shortWork>>,
        <<lwork # -1 /\ checkMatrix(m, n, c, ldc) # "", checkMatrix(m, n, c, ldc)>>,
        <<lwork # -1 /\ checkMatrix(nq, nq, a, lda) # "", checkMatrix(nq, nq, a, lda)>>,
        <<lwork # -1 /\ tau # nq - 1 /\ nq > 0, badTau>> >>)
  IN IF bad # "" THEN Panics(bad, work)
     ELSE [Forwards(lwork, work) EXCEPT !.args = <<ilo + 1, ihi + 1>>]

Dormlq(side, trans, m, n, k, a, lda, tau, c, ldc, work, lwork) ==
  LET left == side = "Left"
      chkA == IF left THEN checkMatrix(k, m, a, lda) ELSE checkMatrix(k, n, a, lda)
      bad == FirstPanic(<<
        <<side # "Left" /\ side # "Right", badSide>>,
        <<trans # "Trans" /\ trans # "NoTrans", badTrans>>,
        <<chkA # "", chkA>>,
        <<checkMatrix(m, n, c, ldc) # "", checkMatrix(m, n, c, ldc)>>,
        <<tau < k, badTau>> >>)
  IN IF bad # "" THEN Panics(bad, work)
     ELSE IF lwork = -1
       THEN (IF left THEN QueryReturn(work, n, "none")
             ELSE QueryReturn(work, m, "none"))
     ELSE IF left /\ lwork < n THEN Panics(badWork, work)
     ELSE IF ~left /\ lwork < m THEN Panics(badWork, work)
     ELSE Forwards(lwork, work)

Dormqr(side, trans, m, n, k, a, lda, tau, c, ldc, work, lwork) ==
  LET nq == IF side = "Left" THEN m ELSE n
      nw == IF side = "Left" THEN n ELSE m
      bad == FirstPanic(<<
        <<side # "Left" /\ side # "Right", badSide>>,
        <<trans # "NoTrans" /\ trans # "Trans", badTrans>>,
        <<m < 0 \/ n < 0, negDimension>>,
        <<k < 0 \/ nq < k, "lapack: invalid value of k">>,
        <<Len(work) < lwork, shortWork>>,
        <<lwork < max(1, nw) /\ lwork # -1, badWork>>,
        <<lwork # -1 /\ checkMatrix(nq, k, a, lda) # "", checkMatrix(nq, k, a, lda)>>,
        <<lwork # -1 /\ checkMatrix(m, n, c, ldc) # "", checkMatrix(m, n, c, ldc)>>,
        <<lwork # -1 /\ tau # k, badTau>> >>)
  IN IF bad # "" THEN Panics(bad, work) ELSE Forwards(lwork, work)

\* The named result ok is never assigned on the query path: the bare return
\* yields its zero value, false.
Dsyev(jobz, uplo, n, a, lda, w, work, lwork) ==
  IF checkMatrix(n, n, a, lda) # "" THEN Panics(checkMatrix(n, n, a, lda), work)
  ELSE IF lwork = -1 THEN QueryReturn(work, 3 * n - 1, "false")
  ELSE IF Len(work) < lwork THEN Panics(badWork, work)
  ELSE IF lwork < 3 * n - 1 THEN Panics(badWork, work)
  ELSE Forwards(lwork, work)

\* In the last switch the case wantz runs checkMatrix and, when that returns,
\* ends the switch: wr and wi are only checked when wantz is false.
Dhseqr(job, compz, n, ilo, ihi, h, ldh, wr, wi, z, ldz, work, lwork) ==
  LET wantz == compz \in {"HessEV", "OriginalEV"}
      bad == FirstPanic(<<
        <<job \notin {"EigenvaluesOnly", "EigenvaluesAndSchur"}, badEVJob>>,
        <<compz \notin {"None", "HessEV", "OriginalEV"}, badEVComp>>,
        <<n < 0, nLT0>>,
        <<ilo < 0 \/ max(0, n - 1) < ilo, badIlo>>,
        <<ihi < min(ilo, n - 1) \/ n <= ihi, badIhi>>,
        <<Len(work) < lwork, shortWork>>,
        <<lwork < max(1, n) /\ lwork # -1, badWork>>,
        <<lwork # -1 /\ checkMatrix(n, n, h, ldh) # "", checkMatrix(n, n, h, ldh)>>,
        <<lwork # -1 /\ wantz /\ checkMatrix(n, n, z, ldz) # "",
          checkMatrix(n, n, z, ldz)>>,
        <<lwork # -1 /\ ~wantz /\ wr < n, "lapack: wr has insufficient length">>,
        <<lwork # -1 /\ ~wantz /\ wi < n, "lapack: wi has insufficient length">> >>)
  IN IF bad # "" THEN Panics(bad, work)
     ELSE [Forwards(lwork, work) EXCEPT !.args = <<ilo + 1, ihi + 1>>]

\* lapacke.Dgeev on a size query: it stores its optimal lwork, opt, in work[0].
lapackeQuery(work, opt) ==
  IF Len(work) = 0 THEN work ELSE [work EXCEPT ![1] = opt]

\* A variant that leaves in work[0] whatever the backend stored.
Dgeev_keepsBackendSize(jobvl, jobvr, n, a, lda, wr, wi, vl, ldvl, vr, ldvr, work, lwork, opt) ==
  LET wantvl == jobvl = "ComputeLeftEV"
      wantvr == jobvr = "ComputeRightEV"
      minwrk == IF wantvl \/ wantvr THEN max(1, 4 * n) ELSE max(1, 3 * n)
      bad == FirstPanic(<<
        <<jobvl \notin {"ComputeLeftEV", "None"}, "lapack: invalid LeftEVJob">>,
        <<jobvr \notin {"ComputeRightEV", "None"}, "lapack: invalid RightEVJob">>,
        <<n < 0, nLT0>>,
        <<Len(work) < lwork, shortWork>>,
        <<lwork # -1 /\ checkMatrix(n, n, a, lda) # "", checkMatrix(n, n, a, lda)>>,
        <<lwork # -1 /\ wantvl /\ checkMatrix(n, n, vl, ldvl) # "",
          checkMatrix(n, n, vl, ldvl)>>,
        <<lwork # -1 /\ wantvr /\ checkMatrix(n, n, vr, ldvr) # "",
          checkMatrix(n, n, vr, ldvr)>>,
        <<lwork # -1 /\ wr # n, "lapack: bad length of wr">>,
        <<lwork # -1 /\ wi # n, "lapack: bad length of wi">>,
        <<lwork # -1 /\ lwork < minwrk, badWork>> >>)
      after == lapackeQuery(work, opt)
  IN IF bad # "" THEN Panics(bad, work)
     ELSE IF n = 0 THEN QueryReturn(work, 1, "0")
     ELSE IF lwork # -1 THEN Forwards(lwork, work)
     ELSE IF Len(work) = 0
       THEN [Forwards(lwork, work) EXCEPT !.panic = indexOutOfRange]
     ELSE Forwards(lwork, after)

\* opt is what the backend stores in work[0] when it is handed lwork == -1.
Dgeev(jobvl, jobvr, n, a, lda, wr, wi, vl, ldvl, vr, ldvr, work, lwork, opt) ==
  LET wantvl == jobvl = "ComputeLeftEV"
      wantvr == jobvr = "ComputeRightEV"
      minwrk == IF wantvl \/ wantvr THEN max(1, 4 * n) ELSE max(1, 3 * n)
      bad == FirstPanic(<<
        <<jobvl \notin {"ComputeLeftEV", "None"}, "lapack: invalid LeftEVJob">>,
        <<jobvr \notin {"ComputeRightEV", "None"}, "lapack: invalid RightEVJob">>,
        <<n < 0, nLT0>>,
        <<Len(work) < lwork, shortWork>>,
        <<lwork # -1 /\ checkMatrix(n, n, a, lda) # "", checkMatrix(n, n, a, lda)>>,
        <<lwork # -1 /\ wantvl /\ checkMatrix(n, n, vl, ldvl) # "",
          checkMatrix(n, n, vl, ldvl)>>,
        <<lwork # -1 /\ wantvr /\ checkMatrix(n, n, vr, ldvr) # "",
          checkMatrix(n, n, vr, ldvr)>>,
        <<lwork # -1 /\ wr # n, "lapack: bad length of wr">>,
        <<lwork # -1 /\ wi # n, "lapack: bad length of wi">>,
        <<lwork # -1 /\ lwork < minwrk, badWork>> >>)
      after == lapackeQuery(work, opt)
  IN IF bad # "" THEN Panics(bad, work)
     ELSE IF n = 0 THEN QueryReturn(work, 1, "0")
     ELSE IF lwork # -1 THEN Forwards(lwork, work)
     ELSE IF Len(work) = 0
       THEN [Forwards(lwork, work) EXCEPT !.panic = indexOutOfRange]
     ELSE IF after[1] < minwrk
       THEN [Forwards(lwork, [after EXCEPT ![1] = minwrk]) EXCEPT !.wrote = {"work"}]
     ELSE Forwards(lwork, after)

\* --------------------------------------- routines without a workspace query
\* The checks of Dlarfb on side, trans, direct and store come after the quick
\* return for an empty c.
Dlarfb(side, trans, direct, store, m, n, k, v, ldv, t, ldt, c, ldc, work, ldwork) ==
  LET bad == FirstPanic(<<
        <<k < 0, "lapack: negative number of transforms">>,
        <<side # "Left" /\ side # "Right", badSide>>,
        <<trans # "Trans" /\ trans # "NoTrans", badTrans>>,
        <<direct # "Forward" /\ direct # "Backward", "lapack: bad direct">>,
        <<store # "ColumnWise" /\ store # "RowWise", "lapack: bad store">> >>)
  IN IF checkMatrix(m, n, c, ldc) # "" THEN Panics(checkMatrix(m, n, c, ldc), work)
     ELSE IF m = 0 \/ n = 0 THEN Returns("none", work, {})
     ELSE IF bad # "" THEN Panics(bad, work)
     ELSE [Forwards(0, work) EXCEPT !.args = <<side, trans, direct, store>>]

\* "ul is checked in lapacke.Dpotrf": the wrapper itself never looks at ul.
\* ok is the result of lapacke.Dpotrf.
Dpotrf(ul, n, a, lda, ok) ==
  IF n < 0 THEN Panics(nLT0, <<>>)
  ELSE IF lda < n THEN Panics("lapack: index of a out of range", <<>>)
  ELSE IF n = 0 THEN Returns("true", <<>>, {})
  ELSE [Forwards(0, <<>>) EXCEPT !.args = <<ul, n, a, lda>>,
                                 !.ret = IF ok THEN "true" ELSE "false"]

\* return lapacke.Dtrtrs(uplo, trans, diag, n, nrhs, a, lda, b, ldb)
Dtrtrs(uplo, trans, diag, n, nrhs, a, lda, b, ldb) ==
  [Forwards(0, <<>>) EXCEPT !.args = <<uplo, trans, diag>>]

Dgetrs(trans, n, nrhs, a, lda, ipiv, b, ldb) ==
  LET bad == FirstPanic(<<
        <<checkMatrix(n, n, a, lda) # "", checkMatrix(n, n, a, lda)>>,
        <<checkMatrix(n, nrhs, b, ldb) # "", checkMatrix(n, nrhs, b, ldb)>>,
        <<Len(ipiv) < n, badIpiv>> >>)
  IN IF bad # "" THEN Panics(bad, <<>>)
     ELSE [Forwards(0, <<>>) EXCEPT !.args = OneIndexed(ipiv)]

\* A float64 is held as [hi, lo], the number hi * 2^53 + lo with lo of small
\* magnitude: the integers up to 2^53 are float64 values, 2^53 + 1 is not.
Float(k) == [hi |-> 0, lo |-> k]

TwoTo53 == [hi |-> 1, lo |-> 0]

\* scale[j]++: 2^53 + 1 lies halfway between two float64 values and is rounded
\* to the even one, 2^53.
Incr(x) == IF x = TwoTo53 THEN x ELSE [x EXCEPT !.lo = @ + 1]

\* scale[j]--: 2^53 - 1 is a float64.
Decr(x) == [x EXCEPT !.lo = @ - 1]

\* The indices the loops "for j := 0; j < ilo; j++" and
\* "for j := ihi + 1; j < n; j++" visit, in order.
\* A variant whose second loop starts at ihi.
Permuted_fromIhi(n, ilo, ihi) ==
  [k \in 1 .. max(0, ilo) + max(0, n - ihi) |->
     IF k <= max(0, ilo) THEN k - 1 ELSE ihi + (k - max(0, ilo) - 1)]

Permuted(n, ilo, ihi) ==
  [k \in 1 .. max(0, ilo) + max(0, n - ihi - 1) |->
     IF k <= max(0, ilo) THEN k - 1 ELSE ihi + 1 + (k - max(0, ilo) - 1)]

\* scale[j]++ (d = 1) or scale[j]-- (d = -1) for the indices js in order; the
\* run stops with a panic at the first index outside scale.
RECURSIVE Translate(_, _, _)
Translate(scale, js, d) ==
  IF js = <<>> THEN [panic |-> "", scale |-> scale]
  ELSE IF Head(js) < 0 \/ Head(js) >= Len(scale)
    THEN [panic |-> indexOutOfRange, scale |-> scale]
  ELSE Translate([scale EXCEPT ![Head(js) + 1] = IF d = 1 THEN Incr(@) ELSE Decr(@)],
                 Tail(js), d)

Jobs == {"None", "Permute", "Scale", "PermuteScale"}

\* b is what lapacke.Dgebal leaves in ilo32[0], ihi32[0] and scale.  res is
\* <<ilo, ihi, scale>> when Dgebal returns.
Dgebal(job, n, a, lda, scale, b) ==
  LET bad == FirstPanic(<<
        <<job \notin Jobs, "lapack: bad Job">>,
        <<checkMatrix(n, n, a, lda) # "", checkMatrix(n, n, a, lda)>>,
        <<Len(scale) # n, "lapack: bad length of scale">> >>)
      ilo == b.ilo32 - 1
      ihi == b.ihi32 - 1
      down == Translate(b.scale, Permuted(n, ilo, ihi), -1)
  IN IF bad # "" THEN Panics(bad, <<>>)
     ELSE [Forwards(0, <<>>) EXCEPT !.panic = down.panic, !.args = <<job, n>>,
                                    !.res = <<ilo, ihi, down.scale>>]

\* The backend reads scale and leaves it as it is.  res is scale when Dgebak is
\* done with it.
Dgebak(job, side, n, ilo, ihi, scale, m, v, ldv) ==
  LET bad == FirstPanic(<<
        <<job \notin Jobs, "lapack: bad Job">>,
        <<side # "LeftEV" /\ side # "RightEV", badSide>>,
        <<checkMatrix(n, m, v, ldv) # "", checkMatrix(n, m, v, ldv)>>,
        <<ilo < 0 \/ max(0, n - 1) < ilo, badIlo>>,
        <<ihi < min(ilo, n - 1) \/ n <= ihi, badIhi>> >>)
      bside == IF side = "LeftEV" THEN "Left" ELSE "Right"
      up == Translate(scale, Permuted(n, ilo, ihi), 1)
      down == Translate(up.scale, Permuted(n, ilo, ihi), -1)
  IN IF bad # "" THEN [Panics(bad, <<>>) EXCEPT !.res = scale]
     ELSE IF up.panic # "" THEN [Panics(up.panic, <<>>) EXCEPT !.res = up.scale]
     ELSE [Forwards(0, <<>>) EXCEPT
             !.args = <<job, bside, n, ilo + 1, ihi + 1, up.scale>>,
             !.res = down.scale]

\* b is what lapacke.Dtrexc leaves in ifst32[0] and ilst32[0], and its result.
\* res is <<ifstOut, ilstOut>>.
Dtrexc(compq, n, t, ldt, q, ldq, ifst, ilst, work, b) ==
  LET bad == FirstPanic(<<
        <<checkMatrix(n, n, t, ldt) # "", checkMatrix(n, n, t, ldt)>>,
        <<compq # "None" /\ compq # "UpdateSchur", "lapack: bad value of compq">>,
        <<compq = "UpdateSchur" /\ checkMatrix(n, n, q, ldq) # "",
          checkMatrix(n, n, q, ldq)>>,
        <<(ifst < 0 \/ n <= ifst) /\ n > 0, "lapack: ifst out of range">>,
        <<(ilst < 0 \/ n <= ilst) /\ n > 0, "lapack: ilst out of range">>,
        <<Len(work) < n, badWork>> >>)
  IN IF bad # "" THEN Panics(bad, work)
     ELSE IF n <= 1 THEN [Returns("true", work, {}) EXCEPT !.res = <<ifst, ilst>>]
     ELSE [Forwards(0, work) EXCEPT
             !.args = <<ifst + 1, ilst + 1>>,
             !.res = <<b.ifst32 - 1, b.ilst32 - 1>>,
             !.ret = IF b.ok THEN "true" ELSE "false"]

\* lapack64.Potrf with the cgo Implementation in use.  a.Data is a slice, held
\* as the array it points into and its length; calls are the Dpotrf calls made.
\* A variant that hands back a copy of the data.
Potrf_copiesData(a, ok) ==
  LET r == Dpotrf(a.Uplo, a.N, a.Data.len, a.Stride, ok)
  IN [panic |-> r.panic, backend |-> r.backend,
      calls |-> << <<a.Uplo, a.N, a.Data, a.Stride>> >>,
      t |-> [Uplo |-> a.Uplo, N |-> a.N,
             Data |-> [array |-> "copy", len |-> a.Data.len],
             Stride |-> a.Stride, Diag |-> "NonUnit"],
      ok |-> r.ret = "true"]

Potrf(a, ok) ==
  LET r == Dpotrf(a.Uplo, a.N, a.Data.len, a.Stride, ok)
  IN [panic |-> r.panic, backend |-> r.backend,
      calls |-> << <<a.Uplo, a.N, a.Data, a.Stride>> >>,
      t |-> [Uplo |-> a.Uplo, N |-> a.N, Data |-> a.Data, Stride |-> a.Stride,
             Diag |-> "NonUnit"],
      ok |-> r.ret = "true"]

\* A Go int is held as [hi, lo], the number hi * 2^32 + lo with lo of small
\* magnitude; an int32 is held as an integer.
GoInt(k) == [hi |-> 0, lo |-> k]

\* int32(v) keeps the low 32 bits of v.
int32(v) == v.lo

\* int(w) of an int32 w.
int(w) == [hi |-> 0, lo |-> w]

\* for i, v := range iwork {
\*     if v != int(int32(v)) { panic("lapack: iwork element out of range") }
\*     _iwork[i] = int32(v)
\* }
\* A variant that converts without the check.
Narrowed_unchecked(iwork) ==
  [panic |-> "", iwork32 |-> [i \in 1 .. Len(iwork) |-> int32(iwork[i])]]

Narrowed(iwork) ==
  IF \E i \in 1 .. Len(iwork) : iwork[i] # int(int32(iwork[i]))
    THEN [panic |-> "lapack: iwork element out of range", iwork32 |-> <<>>]
  ELSE [panic |-> "", iwork32 |-> [i \in 1 .. Len(iwork) |-> int32(iwork[i])]]

\* for i, v := range _iwork { iwork[i] = int(v) }
Widened(iwork32) == [i \in 1 .. Len(iwork32) |-> int(iwork32[i])]

\* The end of Dgecon, Dpocon and Dtrcon: b is what the backend leaves in
\* _iwork; args is the _iwork it is handed and res the caller's iwork on return.
Estimate(iwork, b) ==
  IF Narrowed(iwork).panic # ""
    THEN [Panics(Narrowed(iwork).panic, <<>>) EXCEPT !.res = iwork]
  ELSE [Forwards(0, <<>>) EXCEPT !.args = Narrowed(iwork).iwork32,
                                 !.res = Widened(b)]

Dgecon(norm, n, a, lda, anorm, work, iwork, b) ==
  LET bad == FirstPanic(<<
        <<checkMatrix(n, n, a, lda) # "", checkMatrix(n, n, a, lda)>>,
        <<norm # "MaxColumnSum" /\ norm # "MaxRowSum", "bad norm">>,
        <<work < 4 * n, badWork>>,
        <<Len(iwork) < n, badWork>> >>)
  IN IF bad # "" THEN [Panics(bad, <<>>) EXCEPT !.res = iwork]
     ELSE Estimate(iwork, b)

Dpocon(uplo, n, a, lda, anorm, work, iwork, b) ==
  LET bad == FirstPanic(<<
        <<checkMatrix(n, n, a, lda) # "", checkMatrix(n, n, a, lda)>>,
        <<uplo # "Upper" /\ uplo # "Lower", "lapack: illegal triangle">>,
        <<work < 3 * n, badWork>>,
        <<Len(iwork) < n, badWork>> >>)
  IN IF bad # "" THEN [Panics(bad, <<>>) EXCEPT !.res = iwork]
     ELSE Estimate(iwork, b)

\* Dtrcon does not call checkMatrix.
Dtrcon(norm, uplo, diag, n, a, lda, work, iwork, b) ==
  LET bad == FirstPanic(<<
        <<norm # "MaxColumnSum" /\ norm # "MaxRowSum", "lapack: bad norm">>,
        <<uplo # "Upper" /\ uplo # "Lower", "lapack: illegal triangle">>,
        <<diag # "NonUnit" /\ diag # "Unit", "lapack: bad diag">>,
        <<work < 3 * n, badWork>>,
        <<Len(iwork) < n, badWork>> >>)
  IN IF bad # "" THEN [Panics(bad, <<>>) EXCEPT !.res = iwork]
     ELSE Estimate(iwork, b)

\* A slice is held as the array it points into and its length.
\* make([]float64, 1)
OneElement == [array |-> "make", len |-> 1]

\* "if len(u) == 0 { vt = make([]float64, 1) }": an empty u replaces vt, and u
\* stays as it is.  args is <<vt, u, c>> as the backend is handed them.
Dbdsqr(uplo, n, ncvt, nru, ncc, d, e, vt, ldvt, u, ldu, c, ldc, work) ==
  LET bad == FirstPanic(<<
        <<uplo # "Upper" /\ uplo # "Lower", "lapack: illegal triangle">>,
        <<ncvt # 0 /\ checkMatrix(n, ncvt, vt.len, ldvt) # "",
          checkMatrix(n, ncvt, vt.len, ldvt)>>,
        <<nru # 0 /\ checkMatrix(nru, n, u.len, ldu) # "",
          checkMatrix(nru, n, u.len, ldu)>>,
        <<ncc # 0 /\ checkMatrix(n, ncc, c.len, ldc) # "",
          checkMatrix(n, ncc, c.len, ldc)>>,
        <<d < n, badD>>,
        <<e < n - 1, badE>>,
        <<work < 4 * n, badWork>> >>)
      vt1 == IF vt.len = 0 THEN OneElement ELSE vt
      vt2 == IF u.len = 0 THEN OneElement ELSE vt1
      c1 == IF c.len = 0 THEN OneElement ELSE c
  IN IF bad # "" THEN Panics(bad, <<>>)
     ELSE [Forwards(0, <<>>) EXCEPT !.args = <<vt2, u, c1>>]

\* ipiv32 := make([]int32, len(ipiv)): zeros, of which the backend sets the
\* first min(m,n) to its pivots b.pivots; the loop "for i, v := range ipiv32"
\* then assigns every element of ipiv.  res is ipiv on return.
Dgetf2(m, n, a, lda, ipiv, b) ==
  LET mn == min(m, n)
      bad == FirstPanic(<<
        <<checkMatrix(m, n, a, lda) # "", checkMatrix(m, n, a, lda)>>,
        <<Len(ipiv) < mn, badIpiv>> >>)
      ipiv32 == [i \in 1 .. Len(ipiv) |-> IF i <= mn THEN b.pivots[i] ELSE 0]
  IN IF bad # "" THEN [Panics(bad, <<>>) EXCEPT !.res = ipiv]
     ELSE [Forwards(0, <<>>) EXCEPT
             !.res = [i \in 1 .. Len(ipiv) |-> ipiv32[i] - 1],
             !.ret = IF b.ok THEN "true" ELSE "false"]

\* The wrapper of Dgetrf is that of Dgetf2 around lapacke.Dgetrf.
Dgetrf(m, n, a, lda, ipiv, b) == Dgetf2(m, n, a, lda, ipiv, b)

\* checkVector(n, v, 1) for a slice v of length len.
checkVector(n, len) ==
  IF n < 0 THEN "lapack: negative vector length"
  ELSE IF (n - 1) * 1 >= len THEN "lapack: insufficient vector slice length"
  ELSE ""

\* v and x are lengths, isgn holds int32 values, isave0 is isave[0].  isgn32 has
\* n elements and "for i, v := range isgn" indexes it with every index of isgn.
\* b is what the backend leaves in isgn32; res is isgn when the call is over.
Dlacn2(n, v, x, isgn, kase, isave0, b) ==
  LET bad == FirstPanic(<<
        <<n < 1, "lapack: non-positive n">>,
        <<checkVector(n, x) # "", checkVector(n, x)>>,
        <<checkVector(n, v) # "", checkVector(n, v)>>,
        <<Len(isgn) < n, "lapack: insufficient isgn length">>,
        <<isave0 < 0 \/ isave0 > 5, "lapack: bad isave value">>,
        <<isave0 = 0 /\ kase # 0, "lapack: bad isave value">>,
        <<Len(isgn) > n, indexOutOfRange>> >>)
  IN IF bad # "" THEN [Panics(bad, <<>>) EXCEPT !.res = isgn]
     ELSE [Forwards(0, <<>>) EXCEPT !.args = isgn, !.res = b]

\* ------------------------------------------------------ the caller's inputs
Dims == 0 .. MaxN

\* The block bounds ilo and ihi a caller may pass.
Bounds == -1 .. MaxN

\* (lwork, len(work)) of a first call.
WorkArgs == {[lwork |-> lw, len |-> l] : lw \in -1 .. MaxLwork, l \in 0 .. MaxLwork}

\* A caller's work slice of length l whose content is not an lwork value.
FreshWork(l) == [k \in 1 .. l |-> -2]

\* The (stride, length) of a rows x cols matrix argument called name: packed,
\* padded by one, with a stride one below cols, or one element short.  At most
\* one argument of a call has a defect; df names it.
MatArg(name, rows, cols, df) ==
  CASE df = <<name, "stride">> /\ cols >= 1 ->
         [ld |-> cols - 1, len |-> rows * cols]
    [] df = <<name, "short">> /\ rows * cols >= 1 ->
         [ld |-> cols, len |-> rows * cols - 1]
    [] df = <<name, "pad">> ->
         [ld |-> cols + 1, len |-> max(0, (rows - 1) * (cols + 1) + cols)]
    [] OTHER -> [ld |-> cols, len |-> max(0, rows * cols)]

MatDefects(name) == {<<name, "stride">>, <<name, "short">>, <<name, "pad">>}

\* The length of a vector argument that needs good elements: one short when df
\* names it (VecLen), one more when its length must be exact (VecExact).
VecLen(name, good, df) ==
  IF df = <<name, "short">> THEN max(0, good - 1) ELSE max(0, good)

VecExact(name, good, df) ==
  IF df = <<name, "short">> THEN max(0, good) + 1 ELSE max(0, good)

\* An option: the value chosen, or a value outside its set when df names it.
Opt(name, value, df) == IF df = <<name, "bad">> THEN "Invalid" ELSE value

None == <<"none", "none">>

InDgebrd ==
  { [m |-> m, n |-> n,
     a |-> MatArg("a", m, n, df).len, lda |-> MatArg("a", m, n, df).ld,
     d |-> VecLen("d", min(m, n), df), e |-> VecLen("e", min(m, n) - 1, df),
     tauQ |-> VecLen("tauQ", min(m, n), df), tauP |-> VecLen("tauP", min(m, n), df),
     work |-> FreshWork(w.len), lwork |-> w.lwork, defect |-> df]
    : m \in Dims, n \in Dims, w \in WorkArgs,
      df \in {None} \cup MatDefects("a")
             \cup {<<v, "short">> : v \in {"d", "e", "tauQ", "tauP"}} }

\* Dgelqf and Dgeqrf take the same arguments.
InDgelqf ==
  { [m |-> m, n |-> n,
     a |-> MatArg("a", m, n, df).len, lda |-> MatArg("a", m, n, df).ld,
     tau |-> VecLen("tau", min(m, n), df),
     work |-> FreshWork(w.len), lwork |-> w.lwork, defect |-> df]
    : m \in Dims, n \in Dims, w \in WorkArgs,
      df \in {None, <<"tau", "short">>} \cup MatDefects("a") }

\* Dgehrd and Dorghr take the same arguments.  Every pair (ilo, ihi) is tried
\* with well-formed slices, and every slice defect with the full block.
InDgehrd ==
  { x \in
      { [n |-> n, ilo |-> b[1], ihi |-> b[2],
         a |-> MatArg("a", n, n, df).len, lda |-> MatArg("a", n, n, df).ld,
         tau |-> VecExact("tau", n - 1, df),
         work |-> FreshWork(w.len), lwork |-> w.lwork, defect |-> df]
        : n \in Dims, b \in Bounds \X Bounds, w \in WorkArgs,
          df \in {None, <<"tau", "short">>} \cup MatDefects("a") }
    : x.defect = None \/ (x.ilo = 0 /\ x.ihi = x.n - 1) }

InDgels ==
  { [trans |-> "NoTrans", m |-> m, n |-> n, nrhs |-> nrhs,
     a |-> MatArg("a", m, n, df).len, lda |-> MatArg("a", m, n, df).ld,
     b |-> MatArg("b", max(m, n), nrhs, df).len,
     ldb |-> MatArg("b", max(m, n), nrhs, df).ld,
     work |-> FreshWork(w.len), lwork |-> w.lwork, defect |-> df]
    : m \in Dims, n \in Dims, nrhs \in Dims, w \in WorkArgs,
      df \in {None} \cup MatDefects("a") \cup MatDefects("b") }

SVDJobs == {"SVDAll", "SVDInPlace", "SVDOverwrite", "SVDNone"}

\* The shape Dgesvd documents for u and for vt under each job.
URows(job, m, n) == IF job \in {"SVDAll", "SVDInPlace"} THEN m ELSE 0
UCols(job, m, n) ==
  IF job = "SVDAll" THEN m ELSE IF job = "SVDInPlace" THEN min(m, n) ELSE 0
VTRows(job, m, n) ==
  IF job = "SVDAll" THEN n ELSE IF job = "SVDInPlace" THEN min(m, n) ELSE 0
VTCols(job, m, n) == IF job \in {"SVDAll", "SVDInPlace"} THEN n ELSE 0

InDgesvd ==
  { [jobU |-> ju, jobVT |-> jv, m |-> m, n |-> n,
     a |-> MatArg("a", m, n, df).len, lda |-> MatArg("a", m, n, df).ld,
     s |-> VecLen("s", min(m, n), df),
     u |-> MatArg("u", URows(ju, m, n), UCols(ju, m, n), df).len,
     ldu |-> MatArg("u", URows(ju, m, n), UCols(ju, m, n), df).ld,
     vt |-> MatArg("vt", VTRows(jv, m, n), VTCols(jv, m, n), df).len,
     ldvt |-> MatArg("vt", VTRows(jv, m, n), VTCols(jv, m, n), df).ld,
     work |-> FreshWork(w.len), lwork |-> w.lwork, defect |-> df]
    : ju \in SVDJobs, jv \in SVDJobs, m \in Dims, n \in Dims, w \in WorkArgs,
      df \in {None, <<"s", "short">>} \cup MatDefects("a") \cup MatDefects("u")
             \cup MatDefects("vt") }

\* The pivot indices of an order n factorization: row i swapped with itself;
\* one element short, or with its last index at n or at -1, when df says so.
Pivots(n, df) ==
  CASE df = <<"ipiv", "short">> -> [i \in 1 .. max(0, n - 1) |-> i - 1]
    [] df = <<"ipiv", "high">> /\ n >= 1 -> [i \in 1 .. n |-> IF i = n THEN n ELSE i - 1]
    [] df = <<"ipiv", "negative">> /\ n >= 1 ->
         [i \in 1 .. n |-> IF i = n THEN -1 ELSE i - 1]
    [] OTHER -> [i \in 1 .. max(0, n) |-> i - 1]

PivotDefects == {<<"ipiv", "high">>, <<"ipiv", "negative">>}

InDgetri ==
  { [n |-> n,
     a |-> MatArg("a", n, n, df).len, lda |-> MatArg("a", n, n, df).ld,
     ipiv |-> Pivots(n, df),
     work |-> FreshWork(w.len), lwork |-> w.lwork, defect |-> df]
    : n \in Dims, w \in WorkArgs,
      df \in {None, <<"ipiv", "short">>} \cup PivotDefects \cup MatDefects("a") }

\* a is m x k for ApplyQ and k x n otherwise.
InDorgbr ==
  { [vect |-> vect, m |-> m, n |-> n, k |-> k,
     a |-> MatArg("a", IF vect = "ApplyQ" THEN m ELSE k,
                       IF vect = "ApplyQ" THEN k ELSE n, df).len,
     lda |-> MatArg("a", IF vect = "ApplyQ" THEN m ELSE k,
                         IF vect = "ApplyQ" THEN k ELSE n, df).ld,
     tau |-> VecLen("tau", min(min(m, n), k), df),
     work |-> FreshWork(w.len), lwork |-> w.lwork, defect |-> df]
    : vect \in {"ApplyQ", "ApplyP"}, m \in Dims, n \in Dims, k \in Dims,
      w \in WorkArgs, df \in {None, <<"tau", "short">>} \cup MatDefects("a") }

\* Dorglq and Dorgqr take the same arguments; k may be negative.
InDorglq ==
  { [m |-> m, n |-> n, k |-> k,
     a |-> MatArg("a", m, n, df).len, lda |-> MatArg("a", m, n, df).ld,
     tau |-> VecLen("tau", k, df),
     work |-> FreshWork(w.len), lwork |-> w.lwork, defect |-> df]
    : m \in Dims, n \in Dims, k \in Bounds, w \in WorkArgs,
      df \in {None, <<"tau", "short">>} \cup MatDefects("a") }

Sides == {"Left", "Right"}

nqOf(side, m, n) == IF side = "Left" THEN m ELSE n

\* a is nq x min(nq,k) for ApplyQ and min(nq,k) x nq for ApplyP.
InDormbr ==
  { [vect |-> Opt("vect", vect, df), side |-> Opt("side", side, df),
     trans |-> Opt("trans", "NoTrans", df), m |-> m, n |-> n, k |-> k,
     a |-> MatArg("a", IF vect = "ApplyQ" THEN nqOf(side, m, n)
                       ELSE min(nqOf(side, m, n), k),
                       IF vect = "ApplyQ" THEN min(nqOf(side, m, n), k)
                       ELSE nqOf(side, m, n), df).len,
     lda |-> MatArg("a", IF vect = "ApplyQ" THEN nqOf(side, m, n)
                         ELSE min(nqOf(side, m, n), k),
                         IF vect = "ApplyQ" THEN min(nqOf(side, m, n), k)
                         ELSE nqOf(side, m, n), df).ld,
     tau |-> VecLen("tau", min(nqOf(side, m, n), k), df),
     c |-> MatArg("c", m, n, df).len, ldc |-> MatArg("c", m, n, df).ld,
     work |-> FreshWork(w.len), lwork |-> w.lwork, defect |-> df]
    : vect \in {"ApplyQ", "ApplyP"}, side \in Sides, m \in Dims, n \in Dims,
      k \in Dims, w \in WorkArgs,
      df \in {None, <<"tau", "short">>, <<"vect", "bad">>, <<"side", "bad">>,
              <<"trans", "bad">>} \cup MatDefects("a") \cup MatDefects("c") }

InDormhr ==
  { x \in
      { [side |-> Opt("side", side, df), trans |-> Opt("trans", "NoTrans", df),
         m |-> m, n |-> n, ilo |-> b[1], ihi |-> b[2],
         a |-> MatArg("a", nqOf(side, m, n), nqOf(side, m, n), df).len,
         lda |-> MatArg("a", nqOf(side, m, n), nqOf(side, m, n), df).ld,
         tau |-> VecExact("tau", nqOf(side, m, n) - 1, df),
         c |-> MatArg("c", m, n, df).len, ldc |-> MatArg("c", m, n, df).ld,
         work |-> FreshWork(w.len), lwork |-> w.lwork, defect |-> df]
        : side \in Sides, m \in Dims, n \in Dims, b \in Bounds \X Bounds,
          w \in WorkArgs,
          df \in {None, <<"tau", "short">>, <<"side", "bad">>, <<"trans", "bad">>}
                 \cup MatDefects("a") \cup MatDefects("c") }
    : x.defect = None
      \/ (x.ilo = 0 /\ x.ihi = (IF x.side = "Right" THEN x.n ELSE x.m) - 1) }

\* a is k x m for side Left and k x n for side Right.
InDormlq ==
  { [side |-> Opt("side", side, df), trans |-> Opt("trans", "NoTrans", df),
     m |-> m, n |-> n, k |-> k,
     a |-> MatArg("a", k, nqOf(side, m, n), df).len,
     lda |-> MatArg("a", k, nqOf(side, m, n), df).ld,
     tau |-> VecLen("tau", k, df),
     c |-> MatArg("c", m, n, df).len, ldc |-> MatArg("c", m, n, df).ld,
     work |-> FreshWork(w.len), lwork |-> w.lwork, defect |-> df]
    : side \in Sides, m \in Dims, n \in Dims, k \in Dims, w \in WorkArgs,
      df \in {None, <<"tau", "short">>, <<"side", "bad">>, <<"trans", "bad">>}
             \cup MatDefects("a") \cup MatDefects("c") }

\* a is nq x k.
InDormqr ==
  { [side |-> Opt("side", side, df), trans |-> Opt("trans", "NoTrans", df),
     m |-> m, n |-> n, k |-> k,
     a |-> MatArg("a", nqOf(side, m, n), k, df).len,
     lda |-> MatArg("a", nqOf(side, m, n), k, df).ld,
     tau |-> VecExact("tau", k, df),
     c |-> MatArg("c", m, n, df).len, ldc |-> MatArg("c", m, n, df).ld,
     work |-> FreshWork(w.len), lwork |-> w.lwork, defect |-> df]
    : side \in Sides, m \in Dims, n \in Dims, k \in Dims, w \in WorkArgs,
      df \in {None, <<"tau", "short">>, <<"side", "bad">>, <<"trans", "bad">>}
             \cup MatDefects("a") \cup MatDefects("c") }

InDsyev ==
  { [jobz |-> "ComputeEV", uplo |-> "Upper", n |-> n,
     a |-> MatArg("a", n, n, df).len, lda |-> MatArg("a", n, n, df).ld,
     w |-> VecLen("w", n, df),
     work |-> FreshWork(w.len), lwork |-> w.lwork, defect |-> df]
    : n \in Dims, w \in WorkArgs,
      df \in {None, <<"w", "short">>} \cup MatDefects("a") }

InDhseqr ==
  { x \in
      { [job |-> Opt("job", "EigenvaluesAndSchur", df),
         compz |-> Opt("compz", compz, df),
         n |-> n, ilo |-> b[1], ihi |-> b[2],
         h |-> MatArg("h", n, n, df).len, ldh |-> MatArg("h", n, n, df).ld,
         wr |-> VecLen("wr", n, df), wi |-> VecLen("wi", n, df),
         z |-> MatArg("z", n, n, df).len, ldz |-> MatArg("z", n, n, df).ld,
         work |-> FreshWork(w.len), lwork |-> w.lwork, defect |-> df]
        : compz \in {"None", "HessEV"}, n \in Dims, b \in Bounds \X Bounds,
          w \in WorkArgs,
          df \in {None, <<"wr", "short">>, <<"wi", "short">>, <<"job", "bad">>,
                  <<"compz", "bad">>} \cup MatDefects("h") \cup MatDefects("z") }
    : x.defect = None \/ (x.ilo = 0 /\ x.ihi = x.n - 1) }

\* What lapacke.Dgeev may report as its optimal lwork for order n.
BackendOpt(n) == {1, 3 * n, 4 * n + 1}

InDgeev ==
  { [jobvl |-> Opt("jobvl", jl, df), jobvr |-> Opt("jobvr", jr, df), n |-> n,
     a |-> MatArg("a", n, n, df).len, lda |-> MatArg("a", n, n, df).ld,
     wr |-> VecExact("wr", n, df), wi |-> VecExact("wi", n, df),
     vl |-> MatArg("vl", n, n, df).len, ldvl |-> MatArg("vl", n, n, df).ld,
     vr |-> MatArg("vr", n, n, df).len, ldvr |-> MatArg("vr", n, n, df).ld,
     work |-> FreshWork(w.len), lwork |-> w.lwork, opt |-> opt, defect |-> df]
    : jl \in {"ComputeLeftEV", "None"}, jr \in {"ComputeRightEV", "None"},
      n \in Dims, w \in WorkArgs, opt \in BackendOpt(MaxN),
      df \in {None, <<"wr", "short">>, <<"wi", "short">>, <<"jobvl", "bad">>,
              <<"jobvr", "bad">>} \cup MatDefects("a") \cup MatDefects("vl")
             \cup MatDefects("vr") } 

\* One of side, trans, direct and store may be outside its set; k may be
\* negative.  v, t and work are not looked at by the wrapper.
InDlarfb ==
  { [side |-> Opt("side", side, df), trans |-> Opt("trans", "NoTrans", df),
     direct |-> Opt("direct", "Forward", df), store |-> Opt("store", "ColumnWise", df),
     m |-> m, n |-> n, k |-> k,
     c |-> MatArg("c", m, n, df).len, ldc |-> MatArg("c", m, n, df).ld,
     defect |-> df]
    : side \in Sides, m \in Dims, n \in Dims, k \in Bounds,
      df \in {None, <<"side", "bad">>, <<"trans", "bad">>, <<"direct", "bad">>,
              <<"store", "bad">>} \cup MatDefects("c") }

\* n may be negative; ok is the backend's answer.
InDpotrf ==
  { [ul |-> Opt("ul", ul, df), n |-> n,
     a |-> MatArg("a", n, n, df).len, lda |-> MatArg("a", n, n, df).ld,
     ok |-> ok, defect |-> df]
    : ul \in {"Upper", "Lower"}, n \in Bounds, ok \in BOOLEAN,
      df \in {None, <<"ul", "bad">>} \cup MatDefects("a") }

InDtrtrs ==
  { [uplo |-> Opt("uplo", uplo, df), trans |-> Opt("trans", "NoTrans", df),
     diag |-> Opt("diag", diag, df), n |-> n, nrhs |-> nrhs,
     a |-> MatArg("a", n, n, df).len, lda |-> MatArg("a", n, n, df).ld,
     b |-> MatArg("b", n, nrhs, df).len, ldb |-> MatArg("b", n, nrhs, df).ld,
     defect |-> df]
    : uplo \in {"Upper", "Lower"}, diag \in {"NonUnit", "Unit"}, n \in Dims,
      nrhs \in Dims,
      df \in {None, <<"uplo", "bad">>, <<"trans", "bad">>, <<"diag", "bad">>}
             \cup MatDefects("a") }

InDgetrs ==
  { [trans |-> Opt("trans", "NoTrans", df), n |-> n, nrhs |-> nrhs,
     a |-> MatArg("a", n, n, df).len, lda |-> MatArg("a", n, n, df).ld,
     ipiv |-> Pivots(n, df),
     b |-> MatArg("b", n, nrhs, df).len, ldb |-> MatArg("b", n, nrhs, df).ld,
     defect |-> df]
    : n \in Dims, nrhs \in Dims,
      df \in {None, <<"ipiv", "short">>, <<"trans", "bad">>} \cup PivotDefects
             \cup MatDefects("a") \cup MatDefects("b") }

\* What lapacke.Dgebal reports for order n: a block 1 <= ilo <= ihi <= n (1 and
\* 0 when n is 0), 1-based; scale[j] is the 1-based index of the row exchanged
\* with row j outside the block, and a scaling factor inside it.
Balanced(n) ==
  IF n = 0 THEN {[ilo32 |-> 1, ihi32 |-> 0, scale |-> <<>>]}
  ELSE { b \in
           { [ilo32 |-> lo, ihi32 |-> hi,
              scale |-> [j \in 1 .. n |-> IF lo <= j /\ j <= hi THEN Float(2)
                                         ELSE Float(pi[j])]]
             : lo \in 1 .. n, hi \in 1 .. n, pi \in [1 .. n -> 1 .. n] }
         : b.ilo32 <= b.ihi32 }

InDgebal ==
  { x \in
      { [job |-> Opt("job", "PermuteScale", df), n |-> n,
         a |-> MatArg("a", n, n, df).len, lda |-> MatArg("a", n, n, df).ld,
         scale |-> [j \in 1 .. VecExact("scale", n, df) |-> Float(0)],
         b |-> b, defect |-> df]
        : n \in Dims, b \in UNION {Balanced(k) : k \in Dims},
          df \in {None, <<"scale", "short">>, <<"job", "bad">>} \cup MatDefects("a") }
    : x.b \in Balanced(x.n) }

\* The entries of the scale a caller hands to Dgebak: row indices, or 2^53.
ScaleValues(n) == {Float(0), Float(n - 1), TwoTo53}

\* Every pair (ilo, ihi) is tried with a scale of length n and with a scale one
\* element short, for orders up to MaxN + 1 (the least order at which one index
\* is translated before the block and another after it is 3); every other
\* defect is tried with the full block.
InDgebak ==
  { x \in
      { [job |-> Opt("job", "PermuteScale", df), side |-> Opt("side", side, df),
         n |-> n, ilo |-> b[1], ihi |-> b[2], scale |-> scale, m |-> m,
         v |-> MatArg("v", n, m, df).len, ldv |-> MatArg("v", n, m, df).ld,
         defect |-> df]
        : side \in {"LeftEV", "RightEV"}, n \in 0 .. MaxN + 1, m \in {1},
          b \in Bounds \X Bounds,
          scale \in UNION {[1 .. l -> ScaleValues(MaxN)] : l \in 0 .. MaxN + 1},
          df \in {None, <<"scale", "short">>, <<"job", "bad">>, <<"side", "bad">>}
                 \cup MatDefects("v") }
    : /\ Len(x.scale) = VecLen("scale", x.n, x.defect)
      /\ x.defect \in {None, <<"scale", "short">>} \/ (x.ilo = 0 /\ x.ihi = x.n - 1) }

\* b is what the backend reports: 1-based rows and whether it succeeded.
InDtrexc ==
  { [compq |-> Opt("compq", compq, df), n |-> n,
     t |-> MatArg("t", n, n, df).len, ldt |-> MatArg("t", n, n, df).ld,
     q |-> MatArg("q", n, n, df).len, ldq |-> MatArg("q", n, n, df).ld,
     ifst |-> f[1], ilst |-> f[2], work |-> FreshWork(VecLen("work", n, df)),
     b |-> [ifst32 |-> g[1], ilst32 |-> g[2], ok |-> ok], defect |-> df]
    : compq \in {"None", "UpdateSchur"}, n \in Dims, f \in Bounds \X Bounds,
      g \in (1 .. MaxN) \X (1 .. MaxN), ok \in BOOLEAN,
      df \in {None, <<"work", "short">>, <<"compq", "bad">>} \cup MatDefects("t") }

\* The Symmetric matrices handed to Potrf: order N, stride N - 1 to N + 1, and
\* a slice of the array "A" that holds the matrix or is one element short.
InPotrf ==
  { [a |-> [Uplo |-> uplo, N |-> n, Stride |-> n + d,
            Data |-> [array |-> "A", len |-> max(0, (n - 1) * (n + d) + n - short)]],
     ok |-> ok]
    : uplo \in {"Upper", "Lower"}, n \in Bounds, d \in {-1, 0, 1}, short \in {0, 1},
      ok \in BOOLEAN }

\* The elements of an iwork: 0, -1, and two values of more than 32 bits,
\* 2^32 + 1 and -2^32.
IworkValues == {GoInt(0), GoInt(-1), [hi |-> 1, lo |-> 1], [hi |-> -1, lo |-> 0]}

\* The iwork slices of a caller (up to one element more than the order needs),
\* each with what the backend leaves in a slice of that length.
IworkArgs ==
  { [iwork |-> iw, b |-> [i \in 1 .. Len(iw) |-> v]]
    : iw \in UNION {[1 .. l -> IworkValues] : l \in 0 .. MaxN + 1}, v \in {-1, 7} }

\* The arguments of Dgecon, Dpocon and Dtrcon; wn is 4 for Dgecon and 3 for the
\* other two.  An iwork that is not all zeros comes with good other arguments.
InCon(wn) ==
  { x \in
      { [norm |-> Opt("norm", "MaxColumnSum", df), uplo |-> Opt("uplo", "Upper", df),
         diag |-> Opt("diag", "NonUnit", df), n |-> n,
         a |-> MatArg("a", n, n, df).len, lda |-> MatArg("a", n, n, df).ld,
         work |-> VecLen("work", wn * n, df), iwork |-> w.iwork, b |-> w.b,
         defect |-> df]
        : n \in Dims, w \in IworkArgs,
          df \in {None, <<"work", "short">>, <<"norm", "bad">>, <<"uplo", "bad">>,
                  <<"diag", "bad">>} \cup MatDefects("a") }
    : x.defect = None \/ \A i \in 1 .. Len(x.iwork) : x.iwork[i] = GoInt(0) }

\* vt is n x ncvt, u is nru x n and c is n x ncc, each a slice of an array of
\* its own.
InDbdsqr ==
  { [uplo |-> Opt("uplo", "Upper", df), n |-> n, ncvt |-> ncvt, nru |-> nru,
     ncc |-> ncc, d |-> VecLen("d", n, df), e |-> VecLen("e", n - 1, df),
     vt |-> [array |-> "vt", len |-> MatArg("vt", n, ncvt, df).len],
     ldvt |-> MatArg("vt", n, ncvt, df).ld,
     u |-> [array |-> "u", len |-> MatArg("u", nru, n, df).len],
     ldu |-> MatArg("u", nru, n, df).ld,
     c |-> [array |-> "c", len |-> MatArg("c", n, ncc, df).len],
     ldc |-> MatArg("c", n, ncc, df).ld,
     work |-> VecLen("work", 4 * n, df), defect |-> df]
    : n \in Dims, ncvt \in Dims, nru \in Dims, ncc \in Dims,
      df \in {None, <<"uplo", "bad">>, <<"d", "short">>, <<"e", "short">>,
              <<"work", "short">>} \cup MatDefects("vt") \cup MatDefects("u")
             \cup MatDefects("c") }

\* Dgetf2 and Dgetrf take the same arguments.  ipiv holds 5s on entry and is one
\* element short, just long enough, or one element longer than min(m,n); the
\* backend reports that it exchanged each row with itself or with the last.
InDgetrf ==
  { [m |-> m, n |-> n,
     a |-> MatArg("a", m, n, df).len, lda |-> MatArg("a", m, n, df).ld,
     ipiv |-> [i \in 1 .. max(0, min(m, n) + extra) |-> 5],
     b |-> [pivots |-> [i \in 1 .. min(m, n) |-> IF swap THEN m ELSE i], ok |-> ok],
     defect |-> df]
    : m \in Dims, n \in Dims, extra \in {-1, 0, 1}, swap \in BOOLEAN, ok \in BOOLEAN,
      df \in {None} \cup MatDefects("a") }

\* Each of v, x and isgn is one element short, exact, or one element long; the
\* backend reports the signs b.
InDlacn2 ==
  { [n |-> n, v |-> max(0, n + dv), x |-> max(0, n + dx),
     isgn |-> [i \in 1 .. max(0, n + di) |-> 1], kase |-> kase, isave0 |-> isave0,
     b |-> [i \in 1 .. max(0, n) |-> sign]]
    : n \in Dims, dv \in {-1, 0}, dx \in {-1, 0}, di \in {-1, 0, 1},
      kase \in {0, 1}, isave0 \in {-1, 0, 1, 6}, sign \in {-1, 1} }

\* ------------------------------------------------- the calls of the caller
Invoke(routine, x) ==
  CASE routine = "Dgebrd" ->
         Dgebrd(x.m, x.n, x.a, x.lda, x.d, x.e, x.tauQ, x.tauP, x.work, x.lwork)
    [] routine = "Dgelqf" -> Dgelqf(x.m, x.n, x.a, x.lda, x.tau, x.work, x.lwork)
    [] routine = "Dgeqrf" -> Dgeqrf(x.m, x.n, x.a, x.lda, x.tau, x.work, x.lwork)
    [] routine = "Dgehrd" ->
         Dgehrd(x.n, x.ilo, x.ihi, x.a, x.lda, x.tau, x.work, x.lwork)
    [] routine = "Dgels" ->
         Dgels(x.trans, x.m, x.n, x.nrhs, x.a, x.lda, x.b, x.ldb, x.work, x.lwork)
    [] routine = "Dgesvd" ->
         Dgesvd(x.jobU, x.jobVT, x.m, x.n, x.a, x.lda, x.s, x.u, x.ldu, x.vt,
                x.ldvt, x.work, x.lwork)
    [] routine = "Dgetri" -> Dgetri(x.n, x.a, x.lda, x.ipiv, x.work, x.lwork)
    [] routine = "Dorgbr" ->
         Dorgbr(x.vect, x.m, x.n, x.k, x.a, x.lda, x.tau, x.work, x.lwork)
    [] routine = "Dorghr" ->
         Dorghr(x.n, x.ilo, x.ihi, x.a, x.lda, x.tau, x.work, x.lwork)
    [] routine = "Dorglq" ->
         Dorglq(x.m, x.n, x.k, x.a, x.lda, x.tau, x.work, x.lwork)
    [] routine = "Dorgqr" ->
         Dorgqr(x.m, x.n, x.k, x.a, x.lda, x.tau, x.work, x.lwork)
    [] routine = "Dormbr" ->
         Dormbr(x.vect, x.side, x.trans, x.m, x.n, x.k, x.a, x.lda, x.tau, x.c,
                x.ldc, x.work, x.lwork)
    [] routine = "Dormhr" ->
         Dormhr(x.side, x.trans, x.m, x.n, x.ilo, x.ihi, x.a, x.lda, x.tau, x.c,
                x.ldc, x.work, x.lwork)
    [] routine = "Dormlq" ->
         Dormlq(x.side, x.trans, x.m, x.n, x.k, x.a, x.lda, x.tau, x.c, x.ldc,
                x.work, x.lwork)
    [] routine = "Dormqr" ->
         Dormqr(x.side, x.trans, x.m, x.n, x.k, x.a, x.lda, x.tau, x.c, x.ldc,
                x.work, x.lwork)
    [] routine = "Dsyev" ->
         Dsyev(x.jobz, x.uplo, x.n, x.a, x.lda, x.w, x.work, x.lwork)
    [] routine = "Dhseqr" ->
         Dhseqr(x.job, x.compz, x.n, x.ilo, x.ihi, x.h, x.ldh, x.wr, x.wi, x.z,
                x.ldz, x.work, x.lwork)
    [] routine = "Dgeev" ->
         Dgeev(x.jobvl, x.jobvr, x.n, x.a, x.lda, x.wr, x.wi, x.vl, x.ldvl, x.vr,
               x.ldvr, x.work, x.lwork, x.opt)
    [] routine = "Dlarfb" ->
         Dlarfb(x.side, x.trans, x.direct, x.store, x.m, x.n, x.k, 0, 0, 0, 0,
                x.c, x.ldc, <<>>, 0)
    [] routine = "Dpotrf" -> Dpotrf(x.ul, x.n, x.a, x.lda, x.ok)
    [] routine = "Dtrtrs" ->
         Dtrtrs(x.uplo, x.trans, x.diag, x.n, x.nrhs, x.a, x.lda, x.b, x.ldb)
    [] routine = "Dgetrs" ->
         Dgetrs(x.trans, x.n, x.nrhs, x.a, x.lda, x.ipiv, x.b, x.ldb)
    [] routine = "Dgebal" -> Dgebal(x.job, x.n, x.a, x.lda, x.scale, x.b)
    [] routine = "Dgebak" ->
         Dgebak(x.job, x.side, x.n, x.ilo, x.ihi, x.scale, x.m, x.v, x.ldv)
    [] routine = "Dtrexc" ->
         Dtrexc(x.compq, x.n, x.t, x.ldt, x.q, x.ldq, x.ifst, x.ilst, x.work, x.b)
    [] routine = "Potrf" -> Potrf(x.a, x.ok)
    [] routine = "Dbdsqr" ->
         Dbdsqr(x.uplo, x.n, x.ncvt, x.nru, x.ncc, x.d, x.e, x.vt, x.ldvt, x.u,
                x.ldu, x.c, x.ldc, x.work)
    [] routine = "Dgetf2" -> Dgetf2(x.m, x.n, x.a, x.lda, x.ipiv, x.b)
    [] routine = "Dgetrf" -> Dgetrf(x.m, x.n, x.a, x.lda, x.ipiv, x.b)
    [] routine = "Dlacn2" -> Dlacn2(x.n, x.v, x.x, x.isgn, x.kase, x.isave0, x.b)
    [] routine = "Dgecon" ->
         Dgecon(x.norm, x.n, x.a, x.lda, 1, x.work, x.iwork, x.b)
    [] routine = "Dpocon" ->
         Dpocon(x.uplo, x.n, x.a, x.lda, 1, x.work, x.iwork, x.b)
    [] routine = "Dtrcon" ->
         Dtrcon(x.norm, x.uplo, x.diag, x.n, x.a, x.lda, x.work, x.iwork, x.b)

NoCall ==
  [routine |-> "none", in |-> [work |-> <<>>, lwork |-> 0, defect |-> None],
   out |-> Returns("none", <<>>, {})]

NoMatrix == [kind |-> "none"]

\* var lapack64 lapack.Float64 = native.Implementation{}
native == "native.Implementation"

\* The implementations a caller may hand to Use.
Implementations == {native, "cgo.Implementation"}

NoEffect == [op |-> "none"]

Init ==
  /\ phase = "idle"
  /\ call = NoCall
  /\ first = NoCall
  /\ orig = NoMatrix
  /\ cur = NoMatrix
  /\ hops = 0
  /\ last = NoEffect
  /\ lapack64 = native
  /\ selected = "none"

\* A caller calls routine with the arguments x.
Call(routine, x) ==
  /\ phase = "idle"
  /\ phase' = "returned"
  /\ call' = [routine |-> routine, in |-> x, out |-> Invoke(routine, x)]
  /\ first' = NoCall
  /\ UNCHANGED <<orig, cur, hops, last, lapack64, selected>>

CallDgebrd == phase = "idle" /\ \E x \in InDgebrd : Call("Dgebrd", x)
CallDgelqf == phase = "idle" /\ \E x \in InDgelqf : Call("Dgelqf", x)
CallDgeqrf == phase = "idle" /\ \E x \in InDgelqf : Call("Dgeqrf", x)
CallDgehrd == phase = "idle" /\ \E x \in InDgehrd : Call("Dgehrd", x)
CallDgels == phase = "idle" /\ \E x \in InDgels : Call("Dgels", x)
CallDgesvd == phase = "idle" /\ \E x \in InDgesvd : Call("Dgesvd", x)
CallDgetri == phase = "idle" /\ \E x \in InDgetri : Call("Dgetri", x)
CallDorgbr == phase = "idle" /\ \E x \in InDorgbr : Call("Dorgbr", x)
CallDorghr == phase = "idle" /\ \E x \in InDgehrd : Call("Dorghr", x)
CallDorglq == phase = "idle" /\ \E x \in InDorglq : Call("Dorglq", x)
CallDorgqr == phase = "idle" /\ \E x \in InDorglq : Call("Dorgqr", x)
CallDormbr == phase = "idle" /\ \E x \in InDormbr : Call("Dormbr", x)
CallDormhr == phase = "idle" /\ \E x \in InDormhr : Call("Dormhr", x)
CallDormlq == phase = "idle" /\ \E x \in InDormlq : Call("Dormlq", x)
CallDormqr == phase = "idle" /\ \E x \in InDormqr : Call("Dormqr", x)
CallDsyev == phase = "idle" /\ \E x \in InDsyev : Call("Dsyev", x)
CallDhseqr == phase = "idle" /\ \E x \in InDhseqr : Call("Dhseqr", x)
CallDgeev == phase = "idle" /\ \E x \in InDgeev : Call("Dgeev", x)

\* work = make([]float64, int(work[0])); lwork := len(work)
\* The slice a caller allocates from the size a query stored; make panics on a
\* negative size and leaves no slice.
MakeWork(v) == IF v < 0 THEN <<>> ELSE [k \in 1 .. v |-> 0]

\* The second call of the two-call protocol: after a size query that the
\* wrapper answered, the caller allocates work of the stored size and calls the
\* routine again with the same arguments and lwork = len(work).
SecondCall ==
  /\ phase = "returned"
  /\ call.in.lwork = -1
  /\ call.out.panic = ""
  /\ ~call.out.backend
  /\ phase' = "second"
  /\ first' = call
  /\ LET v == call.out.work[1]
         x == [call.in EXCEPT !.work = MakeWork(v), !.lwork = v]
     IN call' = [routine |-> call.routine, in |-> x,
                 out |-> IF v < 0 THEN Panics(makesliceLen, <<>>)
                         ELSE Invoke(call.routine, x)]
  /\ UNCHANGED <<orig, cur, hops, last, lapack64, selected>>

\* The caller is done with the result.
Done ==
  /\ phase \in {"returned", "second"}
  /\ phase' = "idle"
  /\ call' = NoCall
  /\ first' = NoCall
  /\ UNCHANGED <<orig, cur, hops, last, lapack64, selected>>

Next ==
  \/ CallDgebrd \/ CallDgelqf \/ CallDgeqrf \/ CallDgehrd \/ CallDgels
  \/ CallDgesvd \/ CallDgetri \/ CallDorgbr \/ CallDorghr \/ CallDorglq
  \/ CallDorgqr \/ CallDormbr \/ CallDormhr \/ CallDormlq \/ CallDormqr
  \/ CallDsyev \/ CallDhseqr \/ CallDgeev
  \/ SecondCall
  \/ Done

Spec == Init /\ [][Next]_vars

\* ------------------------------ calls of the routines without a size query
CallDlarfb == phase = "idle" /\ \E x \in InDlarfb : Call("Dlarfb", x)
CallDpotrf == phase = "idle" /\ \E x \in InDpotrf : Call("Dpotrf", x)
CallDtrtrs == phase = "idle" /\ \E x \in InDtrtrs : Call("Dtrtrs", x)
CallDgetrs == phase = "idle" /\ \E x \in InDgetrs : Call("Dgetrs", x)
CallDgebal == phase = "idle" /\ \E x \in InDgebal : Call("Dgebal", x)
CallDgebak == phase = "idle" /\ \E x \in InDgebak : Call("Dgebak", x)
CallDtrexc == phase = "idle" /\ \E x \in InDtrexc : Call("Dtrexc", x)
CallPotrf == phase = "idle" /\ \E x \in InPotrf : Call("Potrf", x)
CallDbdsqr == phase = "idle" /\ \E x \in InDbdsqr : Call("Dbdsqr", x)
CallDgetf2 == phase = "idle" /\ \E x \in InDgetrf : Call("Dgetf2", x)
CallDgetrf == phase = "idle" /\ \E x \in InDgetrf : Call("Dgetrf", x)
CallDlacn2 == phase = "idle" /\ \E x \in InDlacn2 : Call("Dlacn2", x)
CallDgecon == phase = "idle" /\ \E x \in InCon(4) : Call("Dgecon", x)
CallDpocon == phase = "idle" /\ \E x \in InCon(3) : Call("Dpocon", x)
CallDtrcon == phase = "idle" /\ \E x \in InCon(3) : Call("Dtrcon", x)

\* After Dgebal returned ilo, ihi and scale, the caller hands them to Dgebak
\* with a well-formed n x 1 matrix v.
BackTransform ==
  /\ phase = "returned"
  /\ call.routine = "Dgebal"
  /\ call.out.panic = ""
  /\ phase' = "second"
  /\ first' = call
  /\ \E side \in {"LeftEV", "RightEV"} :
       LET x == [job |-> call.in.job, side |-> side, n |-> call.in.n,
                 ilo |-> call.out.res[1], ihi |-> call.out.res[2],
                 scale |-> call.out.res[3], m |-> 1,
                 v |-> call.in.n, ldv |-> 1, defect |-> None]
       IN call' = [routine |-> "Dgebak", in |-> x, out |-> Invoke("Dgebak", x)]
  /\ UNCHANGED <<orig, cur, hops, last, lapack64, selected>>

NextDirect ==
  \/ CallDgehrd \/ CallDorghr \/ CallDormhr \/ CallDhseqr \/ CallDgetri
  \/ CallDlarfb \/ CallDpotrf \/ CallDtrtrs \/ CallDgetrs \/ CallDgebal
  \/ CallDgebak \/ CallDtrexc \/ CallPotrf
  \/ CallDgecon \/ CallDpocon \/ CallDtrcon \/ CallDbdsqr
  \/ CallDgetf2 \/ CallDgetrf \/ CallDlacn2
  \/ BackTransform
  \/ Done

SpecDirect == Init /\ [][NextDirect]_vars

\* ----------------------------------------------------- checkMatrix by itself
\* The arguments of a checkMatrix call: dimensions and stride from -1 on, and
\* every length up to that of the largest packed matrix.
InCheckMatrix ==
  { [m |-> m, n |-> n, a |-> l, lda |-> lda]
    : m \in -1 .. MaxN + 1, n \in -1 .. MaxN + 1, lda \in -1 .. MaxN + 2,
      l \in 0 .. (MaxN + 1) * (MaxN + 1) }

CallCheckMatrix ==
  /\ phase = "idle"
  /\ \E x \in InCheckMatrix :
       call' = [routine |-> "checkMatrix", in |-> x,
                out |-> [panic |-> checkMatrix(x.m, x.n, x.a, x.lda)]]
  /\ phase' = "returned"
  /\ first' = NoCall
  /\ UNCHANGED <<orig, cur, hops, last, lapack64, selected>>

NextCheck == CallCheckMatrix \/ Done

SpecCheck == Init /\ [][NextCheck]_vars

\* ------------------------------------------------- the lapack64 wrappers
\* return lapack64.Dgels(trans, a.Rows, a.Cols, b.Cols, a.Data, a.Stride,
\*                       b.Data, b.Stride, work, lwork)
\* with the cgo Implementation in use.
Gels(trans, a, b, work, lwork) ==
  Dgels(trans, a.Rows, a.Cols, b.Cols, a.Data, a.Stride, b.Data, b.Stride, work, lwork)

\* The arguments of Gels: those of Dgels, as two General matrices.
InGels ==
  { [trans |-> x.trans,
     a |-> [Rows |-> x.m, Cols |-> x.n, Stride |-> x.lda, Data |-> x.a],
     b |-> [Rows |-> max(x.m, x.n), Cols |-> x.nrhs, Stride |-> x.ldb, Data |-> x.b],
     work |-> x.work, lwork |-> x.lwork, defect |-> x.defect]
    : x \in {y \in InDgels : y.lwork \in {-1, MaxLwork} /\ Len(y.work) \in {0, MaxLwork}} }

\* A wrapper call that impl services: what the call does is in this model for
\* the cgo Implementation; package native is not part of it.
Serviced(impl, routine, x) ==
  [by |-> impl,
   result |-> IF impl # "cgo.Implementation" THEN "native"
              ELSE IF routine = "Potrf" THEN Potrf(x.a, x.ok)
              ELSE Gels(x.trans, x.a, x.b, x.work, x.lwork)]

\* func Use(l lapack.Float64) { lapack64 = l }
\* A variant that only replaces the default implementation.
Use_onlyDefault(l) ==
  /\ phase = "idle"
  /\ lapack64' = IF lapack64 = native THEN l ELSE lapack64
  /\ selected' = l
  /\ UNCHANGED <<phase, call, first, orig, cur, hops, last>>

Use(l) ==
  /\ phase = "idle"
  /\ lapack64' = l
  /\ selected' = l
  /\ UNCHANGED <<phase, call, first, orig, cur, hops, last>>

CallUse == \E l \in Implementations : Use(l)

\* A call of a wrapper of package lapack64: lapack64 is read, never written.
Wrapper(routine, x) ==
  /\ phase = "idle"
  /\ phase' = "returned"
  /\ call' = [routine |-> routine, in |-> x, out |-> Serviced(lapack64, routine, x)]
  /\ first' = NoCall
  /\ UNCHANGED <<orig, cur, hops, last, lapack64, selected>>

WrapperPotrf == phase = "idle" /\ \E x \in InPotrf : Wrapper("Potrf", x)
WrapperGels == phase = "idle" /\ \E x \in InGels : Wrapper("Gels", x)

NextUse == CallUse \/ WrapperPotrf \/ WrapperGels \/ Done

SpecUse == Init /\ [][NextUse]_vars

\* ------------------------------------------- src/internal/fortran/fortran.go
\* Largest number of rows, of columns, or order N of a matrix.
MaxDim == 3
\* Largest excess of a source stride over the minor dimension.
MaxPad == 1
\* Largest number of conversions chained from one matrix.
MaxHops == 2

mismatchedDimension == "fortran: mismatched dimension"
mismatchedUplo      == "fortran: mismatched BLAS uplo"
mismatchedDiag      == "fortran: mismatched BLAS diag"
shortDataSlice      == "fortran: short data slice"
badBLASUplo             == "fortran: bad BLAS uplo"

\* The value the tests pre-fill a destination with (NaN there).
Sentinel == -1

\* make([]float64, n)
make(n) == [k \in 1 .. n |-> 0]

\* A descriptor: blas64.General, blas64.Symmetric, blas64.Triangular (major =
\* "row") or the fortran type of the same name (major = "col").  The order N of
\* a Symmetric or Triangular is held in both Rows and Cols; a General has no
\* Uplo and no Diag, a Symmetric no Diag.
Descriptor(kind, major, rows, cols, stride, data, uplo, diag) ==
  [kind |-> kind, major |-> major, Rows |-> rows, Cols |-> cols,
   Stride |-> stride, Data |-> data, Uplo |-> uplo, Diag |-> diag]

\* The outcome of a copy or conversion into t: the panic if any, the target's
\* Data afterwards, and the slots read from the source and written in the
\* target, in order.
Rejects(msg, t) == [panic |-> msg, Data |-> t.Data, reads |-> <<>>, writes |-> <<>>]

\* The iterations <<i, j>> of
\*   for i := 0; i < n; i++ { for j := lo[i]; j < hi[i]; j++ { ... } }
RECURSIVE Loop(_, _, _, _)
Loop(i, n, lo, hi) ==
  IF i >= n THEN <<>>
  ELSE [k \in 1 .. (hi[i] - lo[i]) |-> <<i, lo[i] + k - 1>>] \o Loop(i + 1, n, lo, hi)

\* The inner ranges the loops use: j := 0, j := i, j < m, j <= i.
FromZero(n) == [i \in 0 .. n - 1 |-> 0]
FromI(n) == [i \in 0 .. n - 1 |-> i]
Below(n, m) == [i \in 0 .. n - 1 |-> m]
\* A variant that stops at j < i.
ThroughI_exclusive(n) == [i \in 0 .. n - 1 |-> i]

ThroughI(n) == [i \in 0 .. n - 1 |-> i + 1]

\* The index of the element (i, j) in row-major and in column-major storage.
Index(layout, m, i, j) ==
  IF layout = "row" THEN i * m.Stride + j ELSE i + j * m.Stride

\* The iterations of a loop nest whose outer variable is j, as pairs <<i, j>>.
Swapped(iterations) ==
  [k \in DOMAIN iterations |-> <<iterations[k][2], iterations[k][1]>>]

\* The assignments dst.Data[..] = src.Data[..] of the iterations <<i, j>>, as
\* pairs <<destination index, source index>>; dl and sl are the layouts in
\* which the loop body indexes dst and src.
Assignments(iterations, dl, dst, sl, src) ==
  [k \in DOMAIN iterations |->
     <<Index(dl, dst, iterations[k][1], iterations[k][2]),
       Index(sl, src, iterations[k][1], iterations[k][2])>>]

\* Runs the assignments from the k-th on.  An index outside its slice panics
\* and leaves the assignments already made in place.
RECURSIVE Exec(_, _, _, _, _, _)
Exec(dst, src, steps, k, reads, writes) ==
  IF k > Len(steps)
    THEN [panic |-> "", Data |-> dst, reads |-> reads, writes |-> writes]
  ELSE LET di == steps[k][1]
           si == steps[k][2]
       IN IF si < 0 \/ si >= Len(src)
            THEN [panic |-> indexOutOfRange, Data |-> dst,
                  reads |-> reads, writes |-> writes]
          ELSE IF di < 0 \/ di >= Len(dst)
            THEN [panic |-> indexOutOfRange, Data |-> dst,
                  reads |-> Append(reads, si), writes |-> writes]
          ELSE Exec([dst EXCEPT ![di + 1] = src[si + 1]], src, steps, k + 1,
                    Append(reads, si), Append(writes, di))

Run(t, a, steps) == Exec(t.Data, a.Data, steps, 1, <<>>, <<>>)

\* A variant that stores the element (i, j) at i*Stride + j.
General_From_untransposed(t, a) ==
  IF t.Rows # a.Rows \/ t.Cols # a.Cols THEN Rejects(mismatchedDimension, t)
  ELSE IF Len(t.Data) < (t.Cols - 1) * t.Stride + t.Rows
    THEN Rejects(shortDataSlice, t)
  ELSE Run(t, a, Assignments(
         Loop(0, a.Rows, FromZero(a.Rows), Below(a.Rows, a.Cols)),
         "row", t, "row", a))

\* func (t General) From(a blas64.General)
General_From(t, a) ==
  IF t.Rows # a.Rows \/ t.Cols # a.Cols THEN Rejects(mismatchedDimension, t)
  ELSE IF Len(t.Data) < (t.Cols - 1) * t.Stride + t.Rows
    THEN Rejects(shortDataSlice, t)
  ELSE Run(t, a, Assignments(
         Loop(0, a.Rows, FromZero(a.Rows), Below(a.Rows, a.Cols)),
         "col", t, "row", a))

\* func NewColMajorGeneralFrom(a blas64.General) General
NewColMajorGeneralFrom(a) ==
  LET t == Descriptor("General", "col", a.Rows, a.Cols, a.Rows,
                      make(a.Rows * a.Cols), a.Uplo, a.Diag)
  IN [t |-> t, eff |-> General_From(t, a)]

\* func (a General) To(t blas64.General); here i runs over the columns and j
\* over the rows, so that i + j*t.Stride is the row-major slot of (j, i).
General_To(a, t) ==
  IF t.Rows # a.Rows \/ t.Cols # a.Cols THEN Rejects(mismatchedDimension, t)
  ELSE IF Len(t.Data) < (t.Rows - 1) * t.Stride + t.Cols
    THEN Rejects(shortDataSlice, t)
  ELSE Run(t, a, Assignments(
         Loop(0, a.Cols, FromZero(a.Cols), Below(a.Cols, a.Rows)),
         "col", t, "row", a))

\* func NewRowMajorGeneralFrom(a General) blas64.General
NewRowMajorGeneralFrom(a) ==
  LET t == Descriptor("General", "row", a.Rows, a.Cols, a.Cols,
                      make(a.Rows * a.Cols), a.Uplo, a.Diag)
  IN [t |-> t, eff |-> General_To(a, t)]

\* A variant that indexes dst with the stride of src.
CopyGeneralRowMajor_srcStride(dst, src) ==
  IF dst.Rows # src.Rows \/ dst.Cols # src.Cols
    THEN Rejects(mismatchedDimension, dst)
  ELSE IF Len(dst.Data) < (dst.Rows - 1) * dst.Stride + dst.Cols
    THEN Rejects(shortDataSlice, dst)
  ELSE Run(dst, src, Assignments(
         Loop(0, src.Rows, FromZero(src.Rows), Below(src.Rows, src.Cols)),
         "row", src, "row", src))

\* func CopyGeneralRowMajor(dst, src blas64.General)
CopyGeneralRowMajor(dst, src) ==
  IF dst.Rows # src.Rows \/ dst.Cols # src.Cols
    THEN Rejects(mismatchedDimension, dst)
  ELSE IF Len(dst.Data) < (dst.Rows - 1) * dst.Stride + dst.Cols
    THEN Rejects(shortDataSlice, dst)
  ELSE Run(dst, src, Assignments(
         Loop(0, src.Rows, FromZero(src.Rows), Below(src.Rows, src.Cols)),
         "row", dst, "row", src))

\* func CopyGeneralColMajor(dst, src General); the outer loop runs over the
\* columns j, the inner one over the rows i.
CopyGeneralColMajor(dst, src) ==
  IF dst.Rows # src.Rows \/ dst.Cols # src.Cols
    THEN Rejects(mismatchedDimension, dst)
  ELSE IF Len(dst.Data) < (dst.Cols - 1) * dst.Stride + dst.Rows
    THEN Rejects(shortDataSlice, dst)
  ELSE Run(dst, src, Assignments(
         Swapped(Loop(0, src.Cols, FromZero(src.Cols), Below(src.Cols, src.Rows))),
         "col", dst, "col", src))

\* A variant whose Upper case runs j from 0.
Symmetric_From_readsAll(t, a) ==
  CASE a.Uplo = "Upper" ->
         Run(t, a, Assignments(
           Loop(0, a.Rows, FromZero(a.Rows), Below(a.Rows, a.Rows)),
           "col", t, "row", a))
    [] a.Uplo = "Lower" ->
         Run(t, a, Assignments(
           Loop(0, a.Rows, FromZero(a.Rows), ThroughI(a.Rows)),
           "col", t, "row", a))
    [] OTHER -> Rejects(badBLASUplo, t)

\* func (t Symmetric) From(a blas64.Symmetric); a.N is a.Rows.
Symmetric_From(t, a) ==
  CASE a.Uplo = "Upper" ->
         Run(t, a, Assignments(
           Loop(0, a.Rows, FromI(a.Rows), Below(a.Rows, a.Rows)),
           "col", t, "row", a))
    [] a.Uplo = "Lower" ->
         Run(t, a, Assignments(
           Loop(0, a.Rows, FromZero(a.Rows), ThroughI(a.Rows)),
           "col", t, "row", a))
    [] OTHER -> Rejects(badBLASUplo, t)

\* func NewColMajorSymmetricFrom(a blas64.Symmetric) Symmetric
NewColMajorSymmetricFrom(a) ==
  LET t == Descriptor("Symmetric", "col", a.Rows, a.Rows, a.Rows,
                      make(a.Rows * a.Rows), a.Uplo, a.Diag)
  IN [t |-> t, eff |-> Symmetric_From(t, a)]

\* func (a Symmetric) To(t blas64.Symmetric)
Symmetric_To(a, t) ==
  CASE a.Uplo = "Upper" ->
         Run(t, a, Assignments(
           Loop(0, a.Rows, FromI(a.Rows), Below(a.Rows, a.Rows)),
           "row", t, "col", a))
    [] a.Uplo = "Lower" ->
         Run(t, a, Assignments(
           Loop(0, a.Rows, FromZero(a.Rows), ThroughI(a.Rows)),
           "row", t, "col", a))
    [] OTHER -> Rejects(badBLASUplo, t)

\* func NewRowMajorSymmetricFrom(a Symmetric) blas64.Symmetric
NewRowMajorSymmetricFrom(a) ==
  LET t == Descriptor("Symmetric", "row", a.Rows, a.Rows, a.Rows,
                      make(a.Rows * a.Rows), a.Uplo, a.Diag)
  IN [t |-> t, eff |-> Symmetric_To(a, t)]

\* A variant without the check of len(dst.Data).
CopySymmetricRowMajor_noLengthCheck(dst, src) ==
  IF dst.Rows # src.Rows THEN Rejects(mismatchedDimension, dst)
  ELSE IF dst.Uplo # src.Uplo THEN Rejects(mismatchedUplo, dst)
  ELSE
    CASE src.Uplo = "Upper" ->
           Run(dst, src, Assignments(
           Loop(0, src.Rows, FromI(src.Rows), Below(src.Rows, src.Rows)),
           "row", dst, "row", src))
      [] src.Uplo = "Lower" ->
           Run(dst, src, Assignments(
           Loop(0, src.Rows, FromZero(src.Rows), ThroughI(src.Rows)),
           "row", dst, "row", src))
      [] OTHER -> Rejects(badBLASUplo, dst)

\* func CopySymmetricRowMajor(dst, src blas64.Symmetric)
CopySymmetricRowMajor(dst, src) ==
  IF dst.Rows # src.Rows THEN Rejects(mismatchedDimension, dst)
  ELSE IF dst.Uplo # src.Uplo THEN Rejects(mismatchedUplo, dst)
  ELSE IF Len(dst.Data) < (dst.Rows - 1) * dst.Stride + dst.Rows
    THEN Rejects(shortDataSlice, dst)
  ELSE
    CASE src.Uplo = "Upper" ->
           Run(dst, src, Assignments(
           Loop(0, src.Rows, FromI(src.Rows), Below(src.Rows, src.Rows)),
           "row", dst, "row", src))
      [] src.Uplo = "Lower" ->
           Run(dst, src, Assignments(
           Loop(0, src.Rows, FromZero(src.Rows), ThroughI(src.Rows)),
           "row", dst, "row", src))
      [] OTHER -> Rejects(badBLASUplo, dst)

\* func CopySymmetricColMajor(dst, src Symmetric)
\* A variant that stores the diagonal of a lower triangle a second time.
CopySymmetricColMajor_diagonalTwice(dst, src) ==
  IF dst.Rows # src.Rows THEN Rejects(mismatchedDimension, dst)
  ELSE IF dst.Uplo # src.Uplo THEN Rejects(mismatchedUplo, dst)
  ELSE IF Len(dst.Data) < (dst.Rows - 1) * dst.Stride + dst.Rows
    THEN Rejects(shortDataSlice, dst)
  ELSE
    CASE src.Uplo = "Upper" ->
           Run(dst, src, Assignments(
           Loop(0, src.Rows, FromI(src.Rows), Below(src.Rows, src.Rows)),
           "col", dst, "col", src))
      [] src.Uplo = "Lower" ->
           Run(dst, src, Assignments(
           Loop(0, src.Rows, FromZero(src.Rows), ThroughI(src.Rows))
             \o [k \in 1 .. src.Rows |-> <<k - 1, k - 1>>],
           "col", dst, "col", src))
      [] OTHER -> Rejects(badBLASUplo, dst)

CopySymmetricColMajor(dst, src) ==
  IF dst.Rows # src.Rows THEN Rejects(mismatchedDimension, dst)
  ELSE IF dst.Uplo # src.Uplo THEN Rejects(mismatchedUplo, dst)
  ELSE IF Len(dst.Data) < (dst.Rows - 1) * dst.Stride + dst.Rows
    THEN Rejects(shortDataSlice, dst)
  ELSE
    CASE src.Uplo = "Upper" ->
           Run(dst, src, Assignments(
           Loop(0, src.Rows, FromI(src.Rows), Below(src.Rows, src.Rows)),
           "col", dst, "col", src))
      [] src.Uplo = "Lower" ->
           Run(dst, src, Assignments(
           Loop(0, src.Rows, FromZero(src.Rows), ThroughI(src.Rows)),
           "col", dst, "col", src))
      [] OTHER -> Rejects(badBLASUplo, dst)

\* A variant that leaves the diagonal out when a.Diag is Unit.
Triangular_From_unitSkipsDiag(t, a) ==
  CASE a.Uplo = "Upper" ->
         Run(t, a, Assignments(
           Loop(0, a.Rows, IF a.Diag = "Unit" THEN ThroughI(a.Rows) ELSE FromI(a.Rows),
                Below(a.Rows, a.Rows)),
           "col", t, "row", a))
    [] a.Uplo = "Lower" ->
         Run(t, a, Assignments(
           Loop(0, a.Rows, FromZero(a.Rows),
                IF a.Diag = "Unit" THEN FromI(a.Rows) ELSE ThroughI(a.Rows)),
           "col", t, "row", a))
    [] a.Uplo = "All" ->
         Run(t, a, Assignments(
           Loop(0, a.Rows, FromZero(a.Rows), Below(a.Rows, a.Rows)),
           "col", t, "row", a))
    [] OTHER -> Rejects(badBLASUplo, t)

\* func (t Triangular) From(a blas64.Triangular); a.N is a.Rows.
Triangular_From(t, a) ==
  CASE a.Uplo = "Upper" ->
         Run(t, a, Assignments(
           Loop(0, a.Rows, FromI(a.Rows), Below(a.Rows, a.Rows)),
           "col", t, "row", a))
    [] a.Uplo = "Lower" ->
         Run(t, a, Assignments(
           Loop(0, a.Rows, FromZero(a.Rows), ThroughI(a.Rows)),
           "col", t, "row", a))
    [] a.Uplo = "All" ->
         Run(t, a, Assignments(
           Loop(0, a.Rows, FromZero(a.Rows), Below(a.Rows, a.Rows)),
           "col", t, "row", a))
    [] OTHER -> Rejects(badBLASUplo, t)

\* func NewColMajorTriangularFrom(a blas64.Triangular) Triangular
NewColMajorTriangularFrom(a) ==
  LET t == Descriptor("Triangular", "col", a.Rows, a.Rows, a.Rows,
                      make(a.Rows * a.Rows), a.Uplo, a.Diag)
  IN [t |-> t, eff |-> Triangular_From(t, a)]

\* A variant whose Lower case stops at j < i.
Triangular_To_skipsDiag(a, t) ==
  CASE a.Uplo = "Upper" ->
         Run(t, a, Assignments(
           Loop(0, a.Rows, FromI(a.Rows), Below(a.Rows, a.Rows)),
           "row", t, "col", a))
    [] a.Uplo = "Lower" ->
         Run(t, a, Assignments(
           Loop(0, a.Rows, FromZero(a.Rows), FromI(a.Rows)),
           "row", t, "col", a))
    [] a.Uplo = "All" ->
         Run(t, a, Assignments(
           Loop(0, a.Rows, FromZero(a.Rows), Below(a.Rows, a.Rows)),
           "row", t, "col", a))
    [] OTHER -> Rejects(badBLASUplo, t)

\* func (a Triangular) To(t blas64.Triangular)
Triangular_To(a, t) ==
  CASE a.Uplo = "Upper" ->
         Run(t, a, Assignments(
           Loop(0, a.Rows, FromI(a.Rows), Below(a.Rows, a.Rows)),
           "row", t, "col", a))
    [] a.Uplo = "Lower" ->
         Run(t, a, Assignments(
           Loop(0, a.Rows, FromZero(a.Rows), ThroughI(a.Rows)),
           "row", t, "col", a))
    [] a.Uplo = "All" ->
         Run(t, a, Assignments(
           Loop(0, a.Rows, FromZero(a.Rows), Below(a.Rows, a.Rows)),
           "row", t, "col", a))
    [] OTHER -> Rejects(badBLASUplo, t)

\* func NewRowMajorTriangularFrom(a Triangular) blas64.Triangular
NewRowMajorTriangularFrom(a) ==
  LET t == Descriptor("Triangular", "row", a.Rows, a.Rows, a.Rows,
                      make(a.Rows * a.Rows), a.Uplo, a.Diag)
  IN [t |-> t, eff |-> Triangular_To(a, t)]

\* func CopyTriangularRowMajor(dst, src blas64.Triangular)
CopyTriangularRowMajor(dst, src) ==
  IF dst.Rows # src.Rows THEN Rejects(mismatchedDimension, dst)
  ELSE IF dst.Diag # src.Diag THEN Rejects(mismatchedDiag, dst)
  ELSE IF dst.Uplo # src.Uplo THEN Rejects(mismatchedUplo, dst)
  ELSE IF Len(dst.Data) < (dst.Rows - 1) * dst.Stride + dst.Rows
    THEN Rejects(shortDataSlice, dst)
  ELSE
    CASE src.Uplo = "Upper" ->
           Run(dst, src, Assignments(
           Loop(0, src.Rows, FromI(src.Rows), Below(src.Rows, src.Rows)),
           "row", dst, "row", src))
      [] src.Uplo = "Lower" ->
           Run(dst, src, Assignments(
           Loop(0, src.Rows, FromZero(src.Rows), ThroughI(src.Rows)),
           "row", dst, "row", src))
      [] src.Uplo = "All" ->
           Run(dst, src, Assignments(
           Loop(0, src.Rows, FromZero(src.Rows), Below(src.Rows, src.Rows)),
           "row", dst, "row", src))
      [] OTHER -> Rejects(badBLASUplo, dst)

\* A variant whose Lower case copies every column.
CopyTriangularColMajor_copiesAll(dst, src) ==
  IF dst.Rows # src.Rows THEN Rejects(mismatchedDimension, dst)
  ELSE IF dst.Diag # src.Diag THEN Rejects(mismatchedDiag, dst)
  ELSE IF dst.Uplo # src.Uplo THEN Rejects(mismatchedUplo, dst)
  ELSE IF Len(dst.Data) < (dst.Rows - 1) * dst.Stride + dst.Rows
    THEN Rejects(shortDataSlice, dst)
  ELSE
    CASE src.Uplo = "Upper" ->
           Run(dst, src, Assignments(
           Loop(0, src.Rows, FromI(src.Rows), Below(src.Rows, src.Rows)),
           "col", dst, "col", src))
      [] src.Uplo = "Lower" ->
           Run(dst, src, Assignments(
           Loop(0, src.Rows, FromZero(src.Rows), Below(src.Rows, src.Rows)),
           "col", dst, "col", src))
      [] src.Uplo = "All" ->
           Run(dst, src, Assignments(
           Loop(0, src.Rows, FromZero(src.Rows), Below(src.Rows, src.Rows)),
           "col", dst, "col", src))
      [] OTHER -> Rejects(badBLASUplo, dst)

\* func CopyTriangularColMajor(dst, src Triangular)
CopyTriangularColMajor(dst, src) ==
  IF dst.Rows # src.Rows THEN Rejects(mismatchedDimension, dst)
  ELSE IF dst.Diag # src.Diag THEN Rejects(mismatchedDiag, dst)
  ELSE IF dst.Uplo # src.Uplo THEN Rejects(mismatchedUplo, dst)
  ELSE IF Len(dst.Data) < (dst.Rows - 1) * dst.Stride + dst.Rows
    THEN Rejects(shortDataSlice, dst)
  ELSE
    CASE src.Uplo = "Upper" ->
           Run(dst, src, Assignments(
           Loop(0, src.Rows, FromI(src.Rows), Below(src.Rows, src.Rows)),
           "col", dst, "col", src))
      [] src.Uplo = "Lower" ->
           Run(dst, src, Assignments(
           Loop(0, src.Rows, FromZero(src.Rows), ThroughI(src.Rows)),
           "col", dst, "col", src))
      [] src.Uplo = "All" ->
           Run(dst, src, Assignments(
           Loop(0, src.Rows, FromZero(src.Rows), Below(src.Rows, src.Rows)),
           "col", dst, "col", src))
      [] OTHER -> Rejects(badBLASUplo, dst)

\* ------------------------------------------------- the layout state machine
Majors == {"row", "col"}

\* The shapes of the three kinds of matrix.
Shapes ==
  {[kind |-> "General", Rows |-> r, Cols |-> c, Uplo |-> "none", Diag |-> "none"]
     : r \in 0 .. MaxDim, c \in 0 .. MaxDim}
  \cup
  {[kind |-> "Symmetric", Rows |-> n, Cols |-> n, Uplo |-> u, Diag |-> "none"]
     : n \in 0 .. MaxDim, u \in {"Upper", "Lower"}}
  \cup
  {[kind |-> "Triangular", Rows |-> n, Cols |-> n, Uplo |-> u, Diag |-> d]
     : n \in 0 .. MaxDim, u \in {"Upper", "Lower", "All"}, d \in {"Unit", "NonUnit"}}

\* The number of rows (row major) or columns (column major), and the length of
\* one of them.
MajorDim(major, x) == IF major = "row" THEN x.Rows ELSE x.Cols
MinorDim(major, x) == IF major = "row" THEN x.Cols ELSE x.Rows

\* The shortest Data a descriptor of this stride can have.
MinLen(major, x, stride) ==
  max(0, (MajorDim(major, x) - 1) * stride + MinorDim(major, x))

\* Source storage holds a different value in every slot: slot k (from 0) holds
\* k+1, so that the 3x3 matrix of stride 3 is 1..9.
Labels(n) == [k \in 1 .. n |-> k]

\* The well-formed sources: every shape in either layout, with every stride
\* from the minor dimension to MaxPad more, and storage of the shortest legal
\* length or of whole rows (columns).
Sources ==
  UNION { UNION { { Descriptor(x.kind, mj, x.Rows, x.Cols, st, Labels(l), x.Uplo, x.Diag)
                    : l \in {MinLen(mj, x, st), MajorDim(mj, x) * st} }
                  : st \in MinorDim(mj, x) .. MinorDim(mj, x) + MaxPad }
          : x \in Shapes, mj \in Majors }

\* Storage of n slots filled with the sentinel.
Filler(n) == [k \in 1 .. n |-> Sentinel]

\* The well-formed destinations tried for a source a: the shape of a, laid out
\* in major order, with every stride from the minor dimension to one more than
\* a leaves room for, and storage of whole rows (columns) filled with the
\* sentinel.
FitTargets(a, major) ==
  { Descriptor(a.kind, major, a.Rows, a.Cols, st,
               Filler(MajorDim(major, a) * st), a.Uplo, a.Diag)
    : st \in MinorDim(major, a)
             .. MinorDim(major, a) + (a.Stride - MinorDim(a.major, a)) + 1 }

\* A packed destination of the given shape.
Packed(kind, major, rows, cols, uplo, diag) ==
  Descriptor(kind, major, rows, cols,
             IF major = "row" THEN cols ELSE rows, Filler(rows * cols), uplo, diag)

\* The destinations a caller can also pass: of another shape than a (a row or
\* a column more or less, another Uplo, the other Diag), with storage one slot
\* short of the length rule, or with a stride one below the minor dimension
\* and storage that passes the length rule.
MisfitTargets(a, major) ==
  LET minor == MinorDim(major, a)
      dims == IF a.kind = "General"
                THEN {<<a.Rows + 1, a.Cols>>, <<a.Rows, a.Cols + 1>>,
                      <<a.Rows - 1, a.Cols>>, <<a.Rows, a.Cols - 1>>}
                ELSE {<<a.Rows + 1, a.Cols + 1>>, <<a.Rows - 1, a.Cols - 1>>}
      uplos == CASE a.kind = "Symmetric" -> {"Upper", "Lower"} \ {a.Uplo}
                 [] a.kind = "Triangular" -> {"Upper", "Lower", "All"} \ {a.Uplo}
                 [] OTHER -> {}
      diags == IF a.kind = "Triangular" THEN {"Unit", "NonUnit"} \ {a.Diag} ELSE {}
  IN { Packed(a.kind, major, d[1], d[2], a.Uplo, a.Diag)
       : d \in {d \in dims : d[1] >= 0 /\ d[2] >= 0} }
     \cup { Packed(a.kind, major, a.Rows, a.Cols, u, a.Diag) : u \in uplos }
     \cup { Packed(a.kind, major, a.Rows, a.Cols, a.Uplo, d) : d \in diags }
     \cup { Descriptor(a.kind, major, a.Rows, a.Cols, minor,
                       Filler(MinLen(major, a, minor) - 1), a.Uplo, a.Diag)
            : x \in {1} \cap (0 .. MinLen(major, a, minor)) }
     \cup { Descriptor(a.kind, major, a.Rows, a.Cols, minor - 1,
                       Filler(a.Rows * a.Cols), a.Uplo, a.Diag)
            : x \in {1} \cap (0 .. minor) }

\* The destinations tried for a source a.
Targets(a, major) == FitTargets(a, major) \cup MisfitTargets(a, major)

\* The record of an operation: its source, its target before the call, and
\* what Exec reports.
Effect(op, a, t, eff) ==
  [op |-> op, src |-> a, dst |-> t, panic |-> eff.panic, Data |-> eff.Data,
   reads |-> eff.reads, writes |-> eff.writes]

InitLayout ==
  /\ phase = "layout"
  /\ call = NoCall
  /\ first = NoCall
  /\ orig \in Sources
  /\ cur = orig
  /\ hops = 0
  /\ last = NoEffect
  /\ lapack64 = native
  /\ selected = "none"

CanConvert(kind, major) ==
  /\ phase = "layout"
  /\ hops < MaxHops
  /\ cur.kind = kind
  /\ cur.major = major

\* A conversion returns a new matrix, which the caller goes on with.
Converted(op, a, r) ==
  /\ last' = Effect(op, a, r.t, r.eff)
  /\ cur' = [r.t EXCEPT !.Data = r.eff.Data]
  /\ hops' = hops + 1
  /\ phase' = IF r.eff.panic = "" THEN "layout" ELSE "stopped"
  /\ UNCHANGED <<call, first, orig, lapack64, selected>>

CanFill(kind, major) ==
  /\ phase = "layout"
  /\ cur.kind = kind
  /\ cur.major = major

\* A copy or a conversion into storage of the caller's fills the target t.
Filled(op, a, t, eff) ==
  /\ last' = Effect(op, a, t, eff)
  /\ phase' = "stopped"
  /\ UNCHANGED <<call, first, orig, cur, hops, lapack64, selected>>

CallNewColMajorGeneralFrom ==
  /\ CanConvert("General", "row")
  /\ Converted("NewColMajorGeneralFrom", cur, NewColMajorGeneralFrom(cur))

CallNewRowMajorGeneralFrom ==
  /\ CanConvert("General", "col")
  /\ Converted("NewRowMajorGeneralFrom", cur, NewRowMajorGeneralFrom(cur))

CallGeneralFrom ==
  /\ CanFill("General", "row")
  /\ \E t \in Targets(cur, "col") : Filled("General.From", cur, t, General_From(t, cur))

CallGeneralTo ==
  /\ CanFill("General", "col")
  /\ \E t \in Targets(cur, "row") : Filled("General.To", cur, t, General_To(cur, t))

CallCopyGeneralRowMajor ==
  /\ CanFill("General", "row")
  /\ \E t \in Targets(cur, "row") : Filled("CopyGeneralRowMajor", cur, t, CopyGeneralRowMajor(t, cur))

CallCopyGeneralColMajor ==
  /\ CanFill("General", "col")
  /\ \E t \in Targets(cur, "col") : Filled("CopyGeneralColMajor", cur, t, CopyGeneralColMajor(t, cur))

CallNewColMajorSymmetricFrom ==
  /\ CanConvert("Symmetric", "row")
  /\ Converted("NewColMajorSymmetricFrom", cur, NewColMajorSymmetricFrom(cur))

CallNewRowMajorSymmetricFrom ==
  /\ CanConvert("Symmetric", "col")
  /\ Converted("NewRowMajorSymmetricFrom", cur, NewRowMajorSymmetricFrom(cur))

CallSymmetricFrom ==
  /\ CanFill("Symmetric", "row")
  /\ \E t \in Targets(cur, "col") : Filled("Symmetric.From", cur, t, Symmetric_From(t, cur))

CallSymmetricTo ==
  /\ CanFill("Symmetric", "col")
  /\ \E t \in Targets(cur, "row") : Filled("Symmetric.To", cur, t, Symmetric_To(cur, t))

CallCopySymmetricRowMajor ==
  /\ CanFill("Symmetric", "row")
  /\ \E t \in Targets(cur, "row") : Filled("CopySymmetricRowMajor", cur, t, CopySymmetricRowMajor(t, cur))

CallCopySymmetricColMajor ==
  /\ CanFill("Symmetric", "col")
  /\ \E t \in Targets(cur, "col") : Filled("CopySymmetricColMajor", cur, t, CopySymmetricColMajor(t, cur))

CallNewColMajorTriangularFrom ==
  /\ CanConvert("Triangular", "row")
  /\ Converted("NewColMajorTriangularFrom", cur, NewColMajorTriangularFrom(cur))

CallNewRowMajorTriangularFrom ==
  /\ CanConvert("Triangular", "col")
  /\ Converted("NewRowMajorTriangularFrom", cur, NewRowMajorTriangularFrom(cur))

CallTriangularFrom ==
  /\ CanFill("Triangular", "row")
  /\ \E t \in Targets(cur, "col") : Filled("Triangular.From", cur, t, Triangular_From(t, cur))

CallTriangularTo ==
  /\ CanFill("Triangular", "col")
  /\ \E t \in Targets(cur, "row") : Filled("Triangular.To", cur, t, Triangular_To(cur, t))

CallCopyTriangularRowMajor ==
  /\ CanFill("Triangular", "row")
  /\ \E t \in Targets(cur, "row") : Filled("CopyTriangularRowMajor", cur, t, CopyTriangularRowMajor(t, cur))

CallCopyTriangularColMajor ==
  /\ CanFill("Triangular", "col")
  /\ \E t \in Targets(cur, "col") : Filled("CopyTriangularColMajor", cur, t, CopyTriangularColMajor(t, cur))

NextLayout ==
  \/ CallNewColMajorGeneralFrom
  \/ CallNewRowMajorGeneralFrom
  \/ CallGeneralFrom
  \/ CallGeneralTo
  \/ CallCopyGeneralRowMajor
  \/ CallCopyGeneralColMajor
  \/ CallNewColMajorSymmetricFrom
  \/ CallNewRowMajorSymmetricFrom
  \/ CallSymmetricFrom
  \/ CallSymmetricTo
  \/ CallCopySymmetricRowMajor
  \/ CallCopySymmetricColMajor
  \/ CallNewColMajorTriangularFrom
  \/ CallNewRowMajorTriangularFrom
  \/ CallTriangularFrom
  \/ CallTriangularTo
  \/ CallCopyTriangularRowMajor
  \/ CallCopyTriangularColMajor

SpecLayout == InitLayout /\ [][NextLayout]_vars

\* ---------------------------------------------------------------- claims
LworkRoutines ==
  {"Dgebrd", "Dgelqf", "Dgeqrf", "Dgehrd", "Dgels", "Dgesvd", "Dgetri",
   "Dorgbr", "Dorghr", "Dorglq", "Dorgqr", "Dormbr", "Dormhr", "Dormlq",
   "Dormqr", "Dsyev", "Dhseqr", "Dgeev"}

\* The panics of checkMatrix about a stride or a slice length.
MatrixPanics == {badStride, shortMatrix}

\* The state after a call with lwork == -1 and len(work) >= 1.
IsQuery ==
  /\ phase = "returned"
  /\ call.routine \in LworkRoutines
  /\ call.in.lwork = -1
  /\ Len(call.in.work) >= 1

\* The routines whose size query runs before any check of a matrix argument.
QueryBeforeMatrixChecks ==
  {"Dgelqf", "Dgeqrf", "Dgehrd", "Dgels", "Dorglq", "Dorgqr", "Dormhr",
   "Dormqr", "Dhseqr", "Dgeev"}

WrapperAnswers ==
  {"Dgebrd", "Dgelqf", "Dgeqrf", "Dgels", "Dgesvd", "Dgetri", "Dorgbr",
   "Dorglq", "Dorgqr", "Dormlq", "Dsyev"}

BackendAnswers == {"Dgehrd", "Dorghr", "Dormbr", "Dormhr", "Dormqr", "Dhseqr"}

\* The size each documented query stores, from the dimensions and options.
QuerySize(routine, x) ==
  CASE routine = "Dgebrd" -> max(x.m, x.n)
    [] routine = "Dgelqf" -> x.m
    [] routine = "Dgeqrf" -> x.n
    [] routine = "Dgels" -> min(x.m, x.n) + max(min(x.m, x.n), x.nrhs)
    [] routine = "Dgesvd" ->
         max(5 * min(x.m, x.n), 3 * min(x.m, x.n) + max(x.m, x.n))
    [] routine = "Dgetri" -> x.n
    [] routine = "Dorgbr" -> min(x.m, x.n)
    [] routine = "Dorglq" -> x.m
    [] routine = "Dorgqr" -> x.n
    [] routine = "Dormlq" -> IF x.side = "Left" THEN x.n ELSE x.m
    [] routine = "Dsyev" -> 3 * x.n - 1

\* Only work[0] may differ between the work slice passed and the one left.
OnlyWork0Changed ==
  /\ Len(call.out.work) = Len(call.in.work)
  /\ \A k \in 2 .. Len(call.in.work) : call.out.work[k] = call.in.work[k]
  /\ call.out.wrote \subseteq {"work"}

\* C2 as stated: a size query returns without invoking the lapacke backend and
\* changes nothing but work[0].
C2_QueryNeverReachesBackend ==
  (IsQuery /\ call.out.panic = "") => (~call.out.backend /\ OnlyWork0Changed)

\* C2 as amended: a size query that passes the checks before it changes no
\* element of any argument except work[0]; Dgebrd, Dgelqf, Dgeqrf, Dgels,
\* Dgesvd, Dgetri, Dorgbr, Dorglq, Dorgqr, Dormlq and Dsyev (and Dgeev for
\* n == 0) return without invoking the backend, storing in work[0] a size that
\* the dimensions and options determine; Dgehrd, Dorghr, Dormbr, Dormhr, Dormqr
\* and Dhseqr (and Dgeev for n > 0) hand the query to the lapacke routine with
\* lwork == -1 and write nothing themselves before it, and Dgeev afterwards
\* changes work[0] only.
C2_QueryFrame ==
  (IsQuery /\ call.out.panic = "") =>
    /\ OnlyWork0Changed
    /\ call.routine \in WrapperAnswers =>
         /\ ~call.out.backend
         /\ call.out.work[1] = QuerySize(call.routine, call.in)
    /\ call.routine \in BackendAnswers =>
         /\ call.out.backend
         /\ call.out.blwork = -1
         /\ call.out.work = call.in.work
    /\ call.routine = "Dgeev" =>
         IF call.in.n = 0
           THEN ~call.out.backend /\ call.out.work[1] = 1
           ELSE call.out.backend /\ call.out.blwork = -1

\* C2 witness: a Dgebrd size query with a work slice of two or more elements
\* stored max(m, n) > 0 in work[0].
C2_Witness ==
  /\ IsQuery
  /\ call.routine = "Dgebrd"
  /\ call.out.panic = ""
  /\ Len(call.in.work) >= 2
  /\ call.out.work[1] = 2

\* C3: a size query of a routine with a boolean result (Dgels, Dgesvd, Dgetri,
\* Dsyev) that gets past the checks before the query returns true.
C3_QueryReturnsTrue ==
  (/\ IsQuery
   /\ call.routine \in {"Dgels", "Dgesvd", "Dgetri", "Dsyev"}
   /\ call.out.panic = "")
    => call.out.ret = "true"

\* A workspace no routine finds too small within the bounds.
AmpleWork == [k \in 1 .. 5 * MaxN + 1 |-> 0]

\* The arguments other than the workspace are valid: with an ample workspace
\* the call reaches the backend.
OtherwiseValid(routine, x) ==
  LET y == [x EXCEPT !.work = AmpleWork, !.lwork = Len(AmpleWork)]
  IN Invoke(routine, y).panic = "" /\ Invoke(routine, y).backend

TwoCallRoutines ==
  {"Dgebrd", "Dgelqf", "Dgeqrf", "Dgels", "Dgesvd", "Dgetri", "Dorgbr",
   "Dorglq", "Dorgqr", "Dormlq", "Dsyev"}

\* C4: for non-negative dimensions and otherwise valid arguments, the size v
\* that a query stores is non-negative, and the second call, with a work slice
\* of length v and lwork == v, is not rejected and reaches the backend.
C4_TwoCallProtocol ==
  (/\ phase = "second"
   /\ first.routine \in TwoCallRoutines
   /\ OtherwiseValid(first.routine, first.in))
    => /\ first.out.work[1] >= 0
       /\ call.in.lwork = first.out.work[1]
       /\ Len(call.in.work) = first.out.work[1]
       /\ call.out.panic = ""
       /\ call.out.backend
       /\ call.out.blwork = first.out.work[1]

\* The smallest lwork each routine documents, -1 where it documents none.
DocMinLwork(routine, x) ==
  CASE routine = "Dgebrd" -> max(x.m, x.n)
    [] routine \in {"Dgehrd", "Dhseqr"} -> max(1, x.n)
    [] routine = "Dorghr" -> x.ihi - x.ilo
    [] routine = "Dorglq" -> x.m
    [] routine = "Dorgqr" -> x.n
    [] routine = "Dormhr" -> IF x.side = "Left" THEN max(1, x.n) ELSE max(1, x.m)
    [] routine = "Dormlq" -> IF x.side = "Left" THEN x.m ELSE x.n
    [] routine = "Dormqr" -> IF x.side = "Left" THEN x.n ELSE x.m
    [] routine = "Dgeev" ->
         IF x.jobvl = "ComputeLeftEV" \/ x.jobvr = "ComputeRightEV"
           THEN max(1, 4 * x.n) ELSE max(1, 3 * x.n)
    [] OTHER -> -1

\* C5: a call with lwork # -1 whose lwork is below the documented minimum, or
\* whose work slice is shorter than lwork, panics before the backend is invoked.
C5_ShortWorkRejected ==
  (/\ phase = "returned"
   /\ call.routine \in LworkRoutines
   /\ call.in.lwork # -1
   /\ \/ call.in.lwork < DocMinLwork(call.routine, call.in)
      \/ Len(call.in.work) < call.in.lwork)
    => (call.out.panic # "" /\ ~call.out.backend)

\* The storage slot (from 0) of the cell in row r and column c.
Slot(m, r, c) == IF m.major = "row" THEN r * m.Stride + c ELSE r + c * m.Stride

\* The cells with a meaning: all of a General, the selected triangle with the
\* diagonal of a Symmetric or Triangular, every cell under Uplo All.
ValidCells(m) ==
  { rc \in (0 .. m.Rows - 1) \X (0 .. m.Cols - 1) :
      /\ m.Uplo = "Upper" => rc[2] >= rc[1]
      /\ m.Uplo = "Lower" => rc[2] <= rc[1] }

InvalidCells(m) == ((0 .. m.Rows - 1) \X (0 .. m.Cols - 1)) \ ValidCells(m)

ValidSlots(m) == { Slot(m, rc[1], rc[2]) : rc \in ValidCells(m) }

InvalidSlots(m) == { Slot(m, rc[1], rc[2]) : rc \in InvalidCells(m) }

\* The value stored for a cell.
At(m, rc) == m.Data[Slot(m, rc[1], rc[2]) + 1]

\* Two matrices of one shape that hold the same value in every valid cell.
SameMatrix(x, y) ==
  /\ x.kind = y.kind
  /\ x.Rows = y.Rows
  /\ x.Cols = y.Cols
  /\ x.Uplo = y.Uplo
  /\ x.Diag = y.Diag
  /\ \A rc \in ValidCells(y) :
       /\ Slot(x, rc[1], rc[2]) < Len(x.Data)
       /\ At(x, rc) = At(y, rc)

\* A descriptor whose stride and storage obey the layout rules.
WellFormed(m) ==
  /\ m.Stride >= MinorDim(m.major, m)
  /\ Len(m.Data) >= MinLen(m.major, m, m.Stride)

SameShape(x, y) ==
  /\ x.kind = y.kind
  /\ x.Rows = y.Rows
  /\ x.Cols = y.Cols
  /\ x.Uplo = y.Uplo
  /\ x.Diag = y.Diag

\* The target of the last operation as the operation left it.
LastTarget == [last.dst EXCEPT !.Data = last.Data]

Range(seq) == { seq[k] : k \in DOMAIN seq }

CopyOps ==
  {"CopyGeneralRowMajor", "CopyGeneralColMajor", "CopySymmetricRowMajor",
   "CopySymmetricColMajor", "CopyTriangularRowMajor", "CopyTriangularColMajor"}

\* C6: a well-formed row-major General, Symmetric or Triangular M converted to
\* column major and back has the dimensions, Uplo and Diag of M and holds in
\* every valid cell the value M holds there.
C6_RoundTrip ==
  (orig.kind # "none" /\ orig.major = "row" /\ hops = 2) =>
    /\ cur.major = "row"
    /\ SameMatrix(cur, orig)

\* C6 witness: a lower triangular matrix of order 3 and stride 4 has come back
\* from column major with its diagonal and the cell below it.
C6_Witness ==
  /\ hops = 2
  /\ last.op = "NewRowMajorTriangularFrom"
  /\ orig.major = "row" /\ orig.Uplo = "Lower"
  /\ orig.Rows = 3 /\ orig.Stride = 4
  /\ cur.Stride = 3
  /\ At(cur, <<2, 2>>) = 11 /\ At(cur, <<2, 1>>) = 10

\* The 3x3 matrix 1..9 of stride 3.
Matrix3x3 ==
  Descriptor("General", "row", 3, 3, 3, <<1, 2, 3, 4, 5, 6, 7, 8, 9>>, "none", "none")

\* C7: NewColMajorGeneralFrom(a) returns Rows == a.Rows, Cols == a.Cols,
\* Stride == a.Rows, len(Data) == a.Rows*a.Cols and
\* Data[i + j*a.Rows] == a.Data[i*a.Stride + j] for every cell (i, j), so that
\* the 3x3 matrix 1..9 is stored as 1,4,7,2,5,8,3,6,9; NewRowMajorGeneralFrom
\* of the result holds the original matrix again.
C7_ColMajorGeneral ==
  /\ last.op = "NewColMajorGeneralFrom" =>
       /\ last.panic = ""
       /\ cur.Rows = last.src.Rows
       /\ cur.Cols = last.src.Cols
       /\ cur.Stride = last.src.Rows
       /\ Len(cur.Data) = last.src.Rows * last.src.Cols
       /\ \A i \in 0 .. cur.Rows - 1, j \in 0 .. cur.Cols - 1 :
            cur.Data[i + j * last.src.Rows + 1]
              = last.src.Data[i * last.src.Stride + j + 1]
       /\ last.src = Matrix3x3 => cur.Data = <<1, 4, 7, 2, 5, 8, 3, 6, 9>>
  /\ (last.op = "NewRowMajorGeneralFrom" /\ orig.major = "row") =>
       /\ last.panic = ""
       /\ cur.Stride = orig.Cols
       /\ Len(cur.Data) = orig.Rows * orig.Cols
       /\ SameMatrix(cur, orig)

\* C7 witness: the 3x3 matrix 1..9 has been converted to column major and back.
C7_Witness ==
  /\ orig = Matrix3x3
  /\ last.op = "NewRowMajorGeneralFrom"
  /\ last.src.Data = <<1, 4, 7, 2, 5, 8, 3, 6, 9>>
  /\ cur = Matrix3x3

\* C8: after a Copy* into storage filled with the sentinel has returned, every
\* slot of dst that holds no valid cell (the padding, and under Uplo Upper or
\* Lower the cells of the opposite triangle) still holds the sentinel.
C8_HalfIsolation ==
  (last.op \in CopyOps /\ last.panic = "") =>
    \A k \in 0 .. Len(last.Data) - 1 :
      k \notin ValidSlots(last.dst) => last.Data[k + 1] = Sentinel

\* C8 witness: a lower triangular copy of order 3 into stride 4 wrote the cell
\* (1, 0) and left the cell (0, 1) and the padding of row 0 alone.
C8_Witness ==
  /\ last.op = "CopyTriangularColMajor"
  /\ last.panic = ""
  /\ last.dst.Uplo = "Lower" /\ last.dst.Rows = 3 /\ last.dst.Stride = 4
  /\ At(LastTarget, <<1, 0>>) = At(last.src, <<1, 0>>)
  /\ At(LastTarget, <<0, 1>>) = Sentinel
  /\ last.Data[4] = Sentinel

\* C9: a Copy* into a destination of the source's shape, of any stride from the
\* minor dimension to the source stride + 1 and storage of length major
\* dimension * stride, returns and leaves every valid cell of dst equal to the
\* same cell of src.
C9_StrideIndependence ==
  (last.op \in CopyOps /\ last.dst \in FitTargets(last.src, last.src.major)) =>
    /\ last.panic = ""
    /\ SameMatrix(LastTarget, last.src)

\* C9 witness: a 2x3 row-major copy into a stride above the source's.
C9_Witness ==
  /\ last.op = "CopyGeneralRowMajor"
  /\ last.panic = ""
  /\ last.src.Rows = 2 /\ last.src.Cols = 3
  /\ last.src.Stride = 4 /\ last.dst.Stride = 5
  /\ Len(last.Data) = 10
  /\ At(LastTarget, <<1, 2>>) = 7

SymmetricConversions ==
  {"NewColMajorSymmetricFrom", "Symmetric.From", "NewRowMajorSymmetricFrom",
   "Symmetric.To"}

\* C10: a Symmetric conversion (NewColMajorSymmetricFrom, Symmetric.From,
\* NewRowMajorSymmetricFrom, Symmetric.To) of a well-formed source into a
\* well-formed target of its order and Uplo, under Uplo Upper (Lower), reads no
\* cell strictly below (above) the diagonal of the source, writes none in the
\* destination, and leaves every cell of the selected triangle, the diagonal
\* included, with the value the source holds there.
C10_SymmetricHalfUntouched ==
  (/\ last.op \in SymmetricConversions
   /\ SameShape(last.dst, last.src)
   /\ WellFormed(last.dst)) =>
    /\ last.panic = ""
    /\ Range(last.reads) \cap InvalidSlots(last.src) = {}
    /\ Range(last.writes) \cap InvalidSlots(last.dst) = {}
    /\ SameMatrix(LastTarget, last.src)

\* C10 witness: an upper symmetric matrix of order 3 converted into column
\* major storage of stride 4 whose cell (2, 0) still holds the sentinel.
C10_Witness ==
  /\ last.op = "Symmetric.From"
  /\ last.panic = ""
  /\ last.src.Uplo = "Upper" /\ last.src.Rows = 3
  /\ last.dst.Stride = 4
  /\ Len(last.writes) = 6
  /\ At(LastTarget, <<2, 0>>) = Sentinel
  /\ At(LastTarget, <<0, 2>>) = At(last.src, <<0, 2>>)

\* The panics of the checks a Copy* makes before its loop.
CopyRejections ==
  {mismatchedDimension, mismatchedUplo, mismatchedDiag, shortDataSlice}

\* C11: a Copy* whose dst differs from src in Rows, Cols (N), Uplo or Diag, or
\* whose dst.Data is shorter than (major dimension - 1)*dst.Stride + minor
\* dimension, panics in one of its checks and has modified no element of
\* dst.Data.
C11_CopyChecksBeforeWrite ==
  (/\ last.op \in CopyOps
   /\ \/ ~SameShape(last.dst, last.src)
      \/ Len(last.dst.Data) < MinLen(last.dst.major, last.dst, last.dst.Stride)) =>
    /\ last.panic \in CopyRejections
    /\ last.writes = <<>>
    /\ last.Data = last.dst.Data

\* C11 witness: a symmetric row-major copy of order 3 into storage one slot
\* short was rejected with the storage still full of the sentinel.
C11_Witness ==
  /\ last.op = "CopySymmetricRowMajor"
  /\ last.src.Rows = 3 /\ last.dst.Rows = 3
  /\ last.dst.Uplo = last.src.Uplo
  /\ Len(last.dst.Data) = 8
  /\ last.panic = shortDataSlice
  /\ last.Data = Filler(8)

FromToOps ==
  {"General.From", "General.To", "Symmetric.From", "Symmetric.To",
   "Triangular.From", "Triangular.To"}

\* C12: a From or To whose target differs from the source in Rows, Cols (N), or
\* whose storage is too short for its own stride and extent, fails before it
\* reads or writes any element: it panics and leaves the target storage as it
\* was, with no assignment made.
C12_ConvertIntoFailsFast ==
  (/\ last.op \in FromToOps
   /\ \/ last.dst.Rows # last.src.Rows
      \/ last.dst.Cols # last.src.Cols
      \/ Len(last.dst.Data) < MinLen(last.dst.major, last.dst, last.dst.Stride)) =>
    /\ last.panic # ""
    /\ last.writes = <<>>
    /\ last.Data = last.dst.Data

\* C13: a copy or conversion given a descriptor whose stride is one below the
\* minor dimension (here the destination, with storage long enough to pass the
\* length check) rejects the call and writes no element of the destination.
C13_StrideBelowMinorRejected ==
  (/\ last.op \in CopyOps \cup FromToOps
   /\ \/ last.dst.Stride = MinorDim(last.dst.major, last.dst) - 1
      \/ last.src.Stride = MinorDim(last.src.major, last.src) - 1) =>
    /\ last.panic # ""
    /\ last.writes = <<>>
    /\ last.Data = last.dst.Data

\* An operation on a square matrix of order 0 or 1 with a well-formed target
\* of the same shape.
IsDegenerate ==
  /\ last.op # "none"
  /\ last.src.Rows = last.src.Cols
  /\ last.src.Rows \in {0, 1}
  /\ SameShape(last.dst, last.src)
  /\ WellFormed(last.dst)

\* C14 as stated: every copy and conversion of a matrix of order 0 or 1
\* completes without panicking and changes nothing in the destination storage.
C14_DegenerateNoOp ==
  IsDegenerate => (last.panic = "" /\ last.Data = last.dst.Data)

\* C14 as amended: every copy and conversion of a matrix of order 0 or 1
\* completes without panicking; for order 0 it makes no assignment and leaves
\* the destination storage as it was, for order 1 it makes the one assignment
\* of the source's element to slot 0 and leaves every other slot as it was.
C14_DegenerateOrders ==
  IsDegenerate =>
    /\ last.panic = ""
    /\ last.src.Rows = 0 => (last.writes = <<>> /\ last.Data = last.dst.Data)
    /\ last.src.Rows = 1 =>
         /\ last.writes = <<0>>
         /\ last.reads = <<0>>
         /\ last.Data = [last.dst.Data EXCEPT ![1] = last.src.Data[1]]

\* C14 witness: a lower symmetric copy of order 1 into a stride of 2 stored the
\* element and left the padding alone.
C14_Witness ==
  /\ IsDegenerate
  /\ last.op = "CopySymmetricRowMajor"
  /\ last.src.Uplo = "Lower"
  /\ last.src.Rows = 1
  /\ last.dst.Stride = 2
  /\ last.Data = <<1, Sentinel>>

TriangularOps ==
  {"CopyTriangularRowMajor", "CopyTriangularColMajor", "Triangular.From",
   "Triangular.To"}

\* What a triangular copy or conversion of a into t does.
Perform(op, t, a) ==
  CASE op = "CopyTriangularRowMajor" -> CopyTriangularRowMajor(t, a)
    [] op = "CopyTriangularColMajor" -> CopyTriangularColMajor(t, a)
    [] op = "Triangular.From" -> Triangular_From(t, a)
    [] op = "Triangular.To" -> Triangular_To(a, t)

\* The same matrix with the other Diag.
OtherDiag(m) == [m EXCEPT !.Diag = IF m.Diag = "Unit" THEN "NonUnit" ELSE "Unit"]

\* C15: a triangular copy or conversion with Diag Unit makes the same
\* assignments, in the same order and of the same values, the stored diagonal
\* included, as the one with Diag NonUnit on the same storage, Uplo and strides.
C15_DiagIrrelevant ==
  last.op \in TriangularOps =>
    LET other == Perform(last.op, OtherDiag(last.dst), OtherDiag(last.src))
    IN /\ other.panic = last.panic
       /\ other.reads = last.reads
       /\ other.writes = last.writes
       /\ other.Data = last.Data

\* C15 witness: an upper triangular conversion of order 2 with Diag Unit stored
\* the two diagonal elements and the one above.
C15_Witness ==
  /\ last.op = "Triangular.From"
  /\ last.src.Diag = "Unit" /\ last.dst.Diag = "Unit"
  /\ last.src.Uplo = "Upper" /\ last.src.Rows = 2 /\ last.src.Stride = 2
  /\ last.dst.Stride = 2
  /\ last.panic = ""
  /\ last.writes = <<0, 2, 3>>
  /\ last.Data = <<1, Sentinel, 2, 4>>

\* The options of a call and the set each must lie in.
Options ==
  CASE call.routine = "Dlarfb" ->
         {<<call.in.side, {"Left", "Right"}>>, <<call.in.trans, {"NoTrans", "Trans"}>>,
          <<call.in.direct, {"Forward", "Backward"}>>,
          <<call.in.store, {"ColumnWise", "RowWise"}>>}
    [] call.routine = "Dpotrf" -> {<<call.in.ul, {"Upper", "Lower"}>>}
    [] call.routine = "Dtrtrs" ->
         {<<call.in.uplo, {"Upper", "Lower"}>>,
          <<call.in.trans, {"NoTrans", "Trans", "ConjTrans"}>>,
          <<call.in.diag, {"NonUnit", "Unit"}>>}
    [] call.routine = "Dgebal" -> {<<call.in.job, Jobs>>}
    [] call.routine = "Dgebak" ->
         {<<call.in.job, Jobs>>, <<call.in.side, {"LeftEV", "RightEV"}>>}
    [] call.routine = "Dtrexc" -> {<<call.in.compq, {"None", "UpdateSchur"}>>}
    [] OTHER -> {}

OptionOutOfSet == \E o \in Options : o[1] \notin o[2]

\* C16: a call with an option outside its valid set panics in the wrapper: it
\* neither returns normally nor reaches the lapacke backend, whatever the
\* dimensions.
C16_OptionsFailFast ==
  (phase = "returned" /\ OptionOutOfSet) =>
    (call.out.panic # "" /\ ~call.out.backend)

\* Whether Dgebal or Dgebak translates scale[j], 0 <= j < n.
IsPermutationEntry(j, ilo, ihi) == j < ilo \/ ihi < j

\* x + 1 in exact arithmetic.
PlusOne(x) == [x EXCEPT !.lo = @ + 1]

\* Whether x and x + 1 are both float64 values.
ExactIndex(x) == x.hi = 0

DgebakForwarded == call.routine = "Dgebak" /\ call.out.backend

\* Dgebak hands the backend ilo + 1 and ihi + 1.
DgebakBounds ==
  DgebakForwarded =>
    /\ call.out.args[4] = call.in.ilo + 1
    /\ call.out.args[5] = call.in.ihi + 1
    /\ Len(call.out.args[6]) = Len(call.in.scale)

\* Dgebak after Dgebal hands the backend what the backend of Dgebal reported.
RoundTripOfDgebal ==
  (phase = "second" /\ call.routine = "Dgebak" /\ first.routine = "Dgebal") =>
    /\ call.out.backend
    /\ call.out.args[4] = first.in.b.ilo32
    /\ call.out.args[5] = first.in.b.ihi32
    /\ call.out.args[6] = first.in.b.scale

\* Dtrexc hands the backend ifst + 1 and ilst + 1 and returns what the backend
\* reports minus 1.
DtrexcTranslation ==
  (call.routine = "Dtrexc" /\ call.out.backend) =>
    /\ call.out.args = <<call.in.ifst + 1, call.in.ilst + 1>>
    /\ call.out.res = <<call.in.b.ifst32 - 1, call.in.b.ilst32 - 1>>

\* C17 as stated: (a) Dgebak hands the backend ilo + 1, ihi + 1 and scale[j] + 1
\* for every j in [0, ilo) and (ihi, n), and when it returns scale holds exactly
\* its entry values; (b) Dgebak after Dgebal reproduces the backend's 1-based
\* values; (c) Dtrexc forwards ifst + 1 and ilst + 1 and returns the backend's
\* outputs minus 1.
C17_TranslationSymmetric ==
  /\ DgebakBounds
  /\ DgebakForwarded =>
       /\ \A j \in 0 .. call.in.n - 1 :
            IsPermutationEntry(j, call.in.ilo, call.in.ihi) =>
              call.out.args[6][j + 1] = PlusOne(call.in.scale[j + 1])
       /\ call.out.res = call.in.scale
  /\ RoundTripOfDgebal
  /\ DtrexcTranslation

\* C17, amended: (a) holds for the entries scale[j] that are integers of
\* magnitude below 2^53, as row indices are: those are handed over as
\* scale[j] + 1 and hold their entry value on return, and the entries with j in
\* [ilo, ihi] are handed over and left as they are; (b) and (c) hold as stated.
C17_IndexTranslation ==
  /\ DgebakBounds
  /\ DgebakForwarded =>
       \A j \in 0 .. Len(call.in.scale) - 1 :
         /\ (IsPermutationEntry(j, call.in.ilo, call.in.ihi)
               /\ ExactIndex(call.in.scale[j + 1])) =>
              /\ call.out.args[6][j + 1] = PlusOne(call.in.scale[j + 1])
              /\ call.out.res[j + 1] = call.in.scale[j + 1]
         /\ ~IsPermutationEntry(j, call.in.ilo, call.in.ihi) =>
              /\ call.out.args[6][j + 1] = call.in.scale[j + 1]
              /\ call.out.res[j + 1] = call.in.scale[j + 1]
  /\ RoundTripOfDgebal
  /\ DtrexcTranslation

\* C17 witness: the backend of Dgebal reported the block [2, 2] of an order 2
\* matrix with row 1 exchanged with row 2, and Dgebak handed the same values
\* back and left scale as Dgebal had returned it.
C17_Witness ==
  /\ phase = "second" /\ call.routine = "Dgebak" /\ first.routine = "Dgebal"
  /\ first.in.b = [ilo32 |-> 2, ihi32 |-> 2, scale |-> <<Float(2), Float(2)>>]
  /\ call.in.ilo = 1 /\ call.in.ihi = 1
  /\ call.in.scale = <<Float(1), Float(2)>>
  /\ call.out.args[6] = <<Float(2), Float(2)>>
  /\ call.out.res = call.in.scale

HessenbergRoutines == {"Dgehrd", "Dorghr", "Dhseqr", "Dormhr", "Dgebak"}

\* The order the block bounds of a call refer to.
BlockOrder ==
  IF call.routine = "Dormhr"
    THEN (IF call.in.side = "Left" THEN call.in.m ELSE call.in.n)
    ELSE call.in.n

BlockValid(n, ilo, ihi) ==
  \/ n > 0 /\ 0 <= ilo /\ ilo <= ihi /\ ihi < n
  \/ n = 0 /\ ilo = 0 /\ ihi = -1

\* The bounds a routine handed to the backend.
ForwardedBlock ==
  IF call.routine = "Dgebak" THEN <<call.out.args[4], call.out.args[5]>>
  ELSE call.out.args

\* A call whose other arguments are all good: no defect, and for the routines
\* with a workspace a work of MaxLwork elements and lwork = MaxLwork.
OnlyBlockInQuestion ==
  /\ call.in.defect = None
  /\ call.routine # "Dgebak" => (call.in.lwork = MaxLwork /\ Len(call.in.work) = MaxLwork)

\* C18: Dgehrd, Dorghr, Dhseqr, Dgebak (order n) and Dormhr (order nq) accept
\* (ilo, ihi) exactly when n > 0 and 0 <= ilo <= ihi < n, or n = 0, ilo = 0 and
\* ihi = -1: any other pair panics before the backend is invoked, a valid pair
\* is never what the routine panics about and goes through when the other
\* arguments are good, and the backend is handed (ilo + 1, ihi + 1).
C18_BlockValidation ==
  (phase = "returned" /\ call.routine \in HessenbergRoutines) =>
    LET ok == BlockValid(BlockOrder, call.in.ilo, call.in.ihi)
    IN /\ ~ok => (call.out.panic # "" /\ ~call.out.backend)
       /\ ok => call.out.panic \notin {badIlo, badIhi}
       /\ (ok /\ OnlyBlockInQuestion) => call.out.backend
       /\ call.out.backend =>
            ForwardedBlock = <<call.in.ilo + 1, call.in.ihi + 1>>

\* C18 witness: Dormhr from the right, with m = 1 and n = 2, took the block
\* (1, 1) of order nq = 2 and handed (2, 2) to the backend.
C18_Witness ==
  /\ phase = "returned" /\ call.routine = "Dormhr"
  /\ call.in.side = "Right" /\ call.in.m = 1 /\ call.in.n = 2
  /\ call.in.ilo = 1 /\ call.in.ihi = 1
  /\ call.out.backend /\ call.out.args = <<2, 2>>

\* Some ipiv[i], 0 <= i < n, lies outside [0, n).
PivotOutOfRange ==
  \E i \in 1 .. min(call.in.n, Len(call.in.ipiv)) :
    call.in.ipiv[i] < 0 \/ call.in.ipiv[i] >= call.in.n

\* C19: Dgetrs and Dgetri panic before the backend is invoked when some
\* ipiv[i], 0 <= i < n, lies outside [0, n); ipiv[i] + 1 is never handed on.
C19_PivotsChecked ==
  (phase = "returned" /\ call.routine \in {"Dgetrs", "Dgetri"} /\ PivotOutOfRange) =>
    (call.out.panic # "" /\ ~call.out.backend)

PotrfCalled == phase = "returned" /\ call.routine = "Potrf"

\* C20: Potrf(a) makes exactly one Dpotrf call, with (a.Uplo, a.N, a.Data,
\* a.Stride), and whenever that call returns, Potrf returns a Triangular t with
\* the N, Stride and Uplo of a, Diag NonUnit and Data the very slice a.Data,
\* and ok as Dpotrf answered; t is the same whether ok is true or false.
C20_PotrfAliasesInput ==
  PotrfCalled =>
    LET a == call.in.a
    IN /\ call.out.calls = << <<a.Uplo, a.N, a.Data, a.Stride>> >>
       /\ call.out.panic = "" =>
            /\ call.out.t.N = a.N
            /\ call.out.t.Stride = a.Stride
            /\ call.out.t.Uplo = a.Uplo
            /\ call.out.t.Diag = "NonUnit"
            /\ call.out.t.Data = a.Data
            /\ call.out.backend => call.out.ok = call.in.ok
            /\ ~call.out.backend => call.out.ok
            /\ Potrf(a, TRUE).t = call.out.t
            /\ Potrf(a, FALSE).t = call.out.t

\* C20 witness: the factorization of an order 2 matrix failed, and t is still
\* the input's storage seen as a NonUnit triangle.
C20_Witness ==
  /\ PotrfCalled
  /\ call.in.a.N = 2 /\ call.in.a.Stride = 3 /\ call.in.a.Uplo = "Lower"
  /\ call.out.panic = "" /\ call.out.backend /\ ~call.out.ok
  /\ call.out.t = [Uplo |-> "Lower", N |-> 2, Data |-> [array |-> "A", len |-> 5],
                   Stride |-> 3, Diag |-> "NonUnit"]

\* The implementation handed to the most recent Use, native before any Use.
MostRecentlyUsed == IF selected = "none" THEN native ELSE selected

\* C21: a wrapper call (Potrf, Gels) is serviced by the implementation passed to
\* the most recent Use, or by native.Implementation before any Use, and the
\* selection is what the most recent Use made it, whatever wrapper calls came
\* in between.
C21_BackendSelection ==
  /\ lapack64 = MostRecentlyUsed
  /\ phase = "returned" => call.out.by = MostRecentlyUsed

\* C21 witness: after Use(cgo.Implementation), a Potrf call was serviced by the
\* cgo Implementation, which handed it to its backend.
C21_Witness ==
  /\ phase = "returned" /\ call.routine = "Potrf"
  /\ selected = "cgo.Implementation"
  /\ call.out.by = "cgo.Implementation"
  /\ call.out.result.backend

Overwrites(job) == job = "SVDOverwrite"

\* The panics of Dgesvd that are about its job options.
OverwritePanics == {noSVDO, "lapack: SVD not coded to overwrite original matrix"}

\* C22: Dgesvd panics when jobU and jobVT are both SVDOverwrite, and when at
\* most one of them is it does not panic on account of its job options.
C22_AtMostOneOverwrite ==
  (phase = "returned" /\ call.routine = "Dgesvd") =>
    /\ (Overwrites(call.in.jobU) /\ Overwrites(call.in.jobVT)) => call.out.panic # ""
    /\ ~(Overwrites(call.in.jobU) /\ Overwrites(call.in.jobVT)) =>
         call.out.panic \notin OverwritePanics

\* The least lwork the documentation of Dormlq declares.
DormlqDeclaredMin == IF call.in.side = "Left" THEN call.in.m ELSE call.in.n

\* C23: with lwork # -1 and otherwise valid arguments Dormlq panics when lwork
\* is below m (side Left) or below n (side Right), and does not panic for
\* insufficient workspace when it is not.
C23_DormlqMinimumWork ==
  (phase = "returned" /\ call.routine = "Dormlq" /\ call.in.lwork # -1
     /\ call.in.defect = None) =>
    /\ call.in.lwork < DormlqDeclaredMin => call.out.panic # ""
    /\ call.in.lwork >= DormlqDeclaredMin => call.out.panic # badWork

ConditionRoutines == {"Dgecon", "Dpocon", "Dtrcon"}

\* Whether v is the value of an int32.
FitsInt32(v) == v.hi = 0

\* C24: Dgecon, Dpocon and Dtrcon panic before the backend is invoked when some
\* element of iwork does not fit in an int32; otherwise every element handed to
\* the backend is the caller's value, and on return each iwork[i] is the
\* backend's 32-bit value, widened.
C24_NarrowingChecked ==
  (phase = "returned" /\ call.routine \in ConditionRoutines) =>
    LET iwork == call.in.iwork
    IN /\ (\E i \in 1 .. Len(iwork) : ~FitsInt32(iwork[i])) =>
            (call.out.panic # "" /\ ~call.out.backend)
       /\ call.out.backend =>
            /\ Len(call.out.args) = Len(iwork)
            /\ \A i \in 1 .. Len(iwork) :
                 /\ GoInt(call.out.args[i]) = iwork[i]
                 /\ call.out.res[i] = GoInt(call.in.b[i])

\* C24 witness: Dtrcon of order 2 handed iwork = {0, -1} to the backend as it
\* was and returned with the backend's {7, 7}.
C24_Witness ==
  /\ phase = "returned" /\ call.routine = "Dtrcon" /\ call.in.n = 2
  /\ call.in.iwork = <<GoInt(0), GoInt(-1)>>
  /\ call.out.backend
  /\ call.out.args = <<0, -1>>
  /\ call.out.res = <<GoInt(7), GoInt(7)>>

\* The slice handed to the backend for the caller's slice x is x itself, or a
\* one-element substitute when x is empty.
HandedOn(handed, x) == handed = x \/ (x.len = 0 /\ handed = OneElement)

\* C25: when Dbdsqr's arguments pass validation, the backend is handed the
\* caller's own vt, u and c, each replaced by a one-element slice only when
\* that same argument is empty; with ncvt # 0 and a vt that is not empty the
\* backend is handed the caller's vt whether or not u and c are empty.
C25_DbdsqrForwardsStorage ==
  (phase = "returned" /\ call.routine = "Dbdsqr" /\ call.out.backend) =>
    /\ HandedOn(call.out.args[1], call.in.vt)
    /\ HandedOn(call.out.args[2], call.in.u)
    /\ HandedOn(call.out.args[3], call.in.c)

DgeevMinwrk ==
  IF call.in.jobvl = "ComputeLeftEV" \/ call.in.jobvr = "ComputeRightEV"
    THEN max(1, 4 * call.in.n)
    ELSE max(1, 3 * call.in.n)

\* C26: after a Dgeev call with lwork = -1 and a work that is not empty that
\* returns, work[0] is at least max(1, 4n) when eigenvectors are asked for and
\* at least max(1, 3n) otherwise, whatever the backend stored; for n = 0 Dgeev
\* returns 0 with work[0] = 1 and the backend is not invoked.
C26_DgeevQueryLowerBound ==
  (phase = "returned" /\ call.routine = "Dgeev" /\ call.in.lwork = -1
     /\ Len(call.in.work) >= 1 /\ call.out.panic = "") =>
    /\ call.out.work[1] >= DgeevMinwrk
    /\ call.in.n = 0 =>
         (call.out.ret = "0" /\ call.out.work[1] = 1 /\ ~call.out.backend)

\* C26 witness: for order 2 with right eigenvectors the backend stored 1 and
\* Dgeev raised work[0] to 8.
C26_Witness ==
  /\ phase = "returned" /\ call.routine = "Dgeev" /\ call.in.lwork = -1
  /\ call.in.n = 2 /\ call.in.jobvr = "ComputeRightEV" /\ call.in.opt = 1
  /\ call.out.backend /\ call.out.panic = ""
  /\ call.out.work[1] = 8

CheckMatrixCalled == phase = "returned" /\ call.routine = "checkMatrix"

\* The cells of an m x n matrix.
Cells(m, n) == (0 .. m - 1) \X (0 .. n - 1)

\* C27: checkMatrix(m, n, a, lda) panics exactly when m < 0, or n < 0, or
\* lda < n, or len(a) < (m-1)*lda + n; after a call that returns, i*lda + j is
\* an index of a for every cell (i, j) of the matrix, and two cells never share
\* an index.
C27_CheckMatrix ==
  CheckMatrixCalled =>
    LET m == call.in.m
        n == call.in.n
        lda == call.in.lda
        len == call.in.a
    IN /\ call.out.panic # "" <=>
            (m < 0 \/ n < 0 \/ lda < n \/ len < (m - 1) * lda + n)
       /\ call.out.panic = "" =>
            /\ \A c \in Cells(m, n) : 0 <= c[1] * lda + c[2] /\ c[1] * lda + c[2] < len
            /\ \A c \in Cells(m, n), d \in Cells(m, n) :
                 c # d => c[1] * lda + c[2] # d[1] * lda + d[2]

\* C27 witness: a 3 x 2 matrix with stride 3 in a slice of just 8 elements is
\* let through, and its last cell is the last element.
C27_Witness ==
  /\ CheckMatrixCalled
  /\ call.in = [m |-> 3, n |-> 2, a |-> 8, lda |-> 3]
  /\ call.out.panic = ""

\* The operations on Symmetric and Triangular descriptors that convert into or
\* copy into a destination the caller supplies.
HalfOps ==
  {"Symmetric.From", "Symmetric.To", "CopySymmetricRowMajor", "CopySymmetricColMajor",
   "Triangular.From", "Triangular.To", "CopyTriangularRowMajor",
   "CopyTriangularColMajor"}

NoDuplicates(seq) == \A k \in DOMAIN seq, l \in DOMAIN seq : k # l => seq[k] # seq[l]

\* C28: a conversion or copy of a Symmetric or Triangular matrix into a
\* destination of the same shape, with a stride of at least N and storage for
\* it, returns and writes each slot of the selected half (every slot of the
\* matrix under Uplo All), the diagonal included, exactly once, and no other
\* slot of the destination.
C28_EachCellOnce ==
  (last.op \in HalfOps /\ SameShape(last.dst, last.src) /\ WellFormed(last.dst)) =>
    /\ last.panic = ""
    /\ NoDuplicates(last.writes)
    /\ Range(last.writes) = ValidSlots(last.dst)

\* C28 witness: a lower symmetric copy of order 3 between strides 3 and 4 made
\* six assignments, three of them to the diagonal slots 0, 5 and 10.
C28_Witness ==
  /\ last.op = "CopySymmetricColMajor"
  /\ last.src.Uplo = "Lower" /\ last.src.Rows = 3 /\ last.src.Stride = 3
  /\ last.dst.Stride = 4
  /\ last.panic = ""
  /\ Len(last.writes) = 6
  /\ {0, 5, 10} \subseteq Range(last.writes)

ConvertedOnEntry ==
  CASE call.routine = "Dgebak" -> call.in.scale
    [] call.routine \in {"Dgetrf", "Dgetf2"} -> call.in.ipiv
    [] call.routine \in ConditionRoutines -> call.in.iwork
    [] call.routine = "Dlacn2" -> call.in.isgn
    [] OTHER -> <<>>

\* The call panicked and the backend was not invoked.
FailedBeforeBackend ==
  phase \in {"returned", "second"} /\ call.out.panic # "" /\ ~call.out.backend

====
